---- MODULE Spec2Model ----
(***************************************************************************)
(* A model of kelindar/intmap: the uint32 -> uint32 Robin Hood hash table  *)
(* of src/map.go (type Map, lines 1-327).                                  *)
(*                                                                         *)
(* The table is a record with the fields of the Go struct.  data is the    *)
(* interleaved array [k0,v0,k1,v1,...] indexed from 0 as in the source.    *)
(* Every operation of the table is a recursive operator that follows the   *)
(* source loop by loop; the actions of the specification apply one         *)
(* operation to the table m and record what the caller observed.           *)
(*                                                                         *)
(* Arithmetic.  Keys, values and offsets are uint32 in the source.  The    *)
(* model keeps every key below 2^16 and every mask below 2^16, so the low  *)
(* 16 bits of each uint32 product or difference decide every masked        *)
(* result; Low16 keeps exactly those bits.                                 *)
(***************************************************************************)
EXTENDS Integers, Sequences, FiniteSets, TLC

(***************************************************************************)
(* Bounds of the model.                                                    *)
(***************************************************************************)
\* number of keys of KeyList the caller uses (key 0 is the first of them)
NumKeys == 4
\* the largest Capacity() a Clone may have
MaxCap == 16
\* the largest Capacity() a Store may grow a table to
MaxGrow == 32
\* number of keys of KeyList the caller of SpecProbe uses: with five of them
\* three keys share a home bucket at capacity 8
NumProbeKeys == 5
\* number of goroutines that call the methods of a Sync
NumGoroutines == 2
\* number of keys the caller of SpecFull uses: one more than a table of
\* capacity 8 has slots
NumFullKeys == 9

\* The keys the caller draws from.  0 is the free key.  At capacity 8 the
\* home bucket of k is k % 8: 7, 15 and 31 collide in the last bucket, so
\* their probe run wraps around the end of the array into the bucket of 8.
\* At capacity 16 the home bucket is 9k % 16: 15 and 31 collide in bucket 7,
\* next to the bucket of 8, and 7 sits in the last bucket.
KeyList == <<0, 7, 15, 8, 31, 1, 9, 23>>
Keys == {KeyList[i] : i \in 1..(IF NumKeys < Len(KeyList) THEN NumKeys ELSE Len(KeyList))}
\* The values the caller stores.  The table only copies values and never
\* inspects them, so 0 (the value of a zeroed slot) and one other value are
\* all the cases there are.
Vals == {0, 1}

(***************************************************************************)
(* Program constants.                                                      *)
(***************************************************************************)
isFree == 0
\* 0.80 as the rational 4/5
defaultFillFactor == [n |-> 4, d |-> 5]
\* the low 16 bits (0x79B9) of phi32 = 0x9E3779B9
phi32Lo == 31161
\* 2^16
TwoTo16 == 65536
\* a float32 has a 24-bit significand: 2^23 <= significand < 2^24
TwoTo23 == 8388608
minArraySize == 8

(***************************************************************************)
(* uint32 arithmetic on the low bits.                                      *)
(***************************************************************************)
Low16(x) == x % TwoTo16

RECURSIVE BitAnd(_, _)
BitAnd(a, b) ==
    IF a = 0 \/ b = 0 THEN 0
    ELSE (IF a % 2 = 1 /\ b % 2 = 1 THEN 1 ELSE 0) + 2 * BitAnd(a \div 2, b \div 2)

RECURSIVE BitOr(_, _)
BitOr(a, b) ==
    IF a = 0 THEN b
    ELSE IF b = 0 THEN a
    ELSE (IF a % 2 = 1 \/ b % 2 = 1 THEN 1 ELSE 0) + 2 * BitOr(a \div 2, b \div 2)

RECURSIVE ShiftRight(_, _)
ShiftRight(x, n) == IF n = 0 THEN x ELSE ShiftRight(x \div 2, n - 1)

(***************************************************************************)
(* Floating point.  A fill factor is a rational [n, d] with d > 0; the     *)
(* fill factors a table is constructed with have 0 < n < d.                *)
(* The float64 products and quotients the source takes are modelled        *)
(* exactly; for the configurations of the model (a power-of-two capacity   *)
(* times the fill factor, a small size divided by it) the float64 result   *)
(* has the same floor and ceiling as the exact one.                        *)
(***************************************************************************)
Floor(n, d) == n \div d
Ceil(n, d) == (n + d - 1) \div d

\* float32(f): f rounded to a 24-bit significand, ties to even
RECURSIVE ScaleUp(_, _)
ScaleUp(f, p) ==
    IF f.n * p >= TwoTo23 * f.d THEN p ELSE ScaleUp(f, 2 * p)
ToFloat32(f) ==
    LET p == ScaleUp(f, 1)
        q == (f.n * p) \div f.d
        r == (f.n * p) % f.d
        up == (2 * r > f.d) \/ (2 * r = f.d /\ q % 2 = 1)
    IN  [n |-> IF up THEN q + 1 ELSE q, d |-> p]

(***************************************************************************)
(* The table.                                                              *)
(***************************************************************************)
len(data) == Cardinality(DOMAIN data)
make(n) == [i \in 0..(n - 1) |-> 0]

(***************************************************************************)
(* arraySize works on a uint32 x that may exceed the integers of the       *)
(* model checker (below 2^31): x is kept as the pair [hi, lo] of its       *)
(* 16-bit halves, x = hi * 2^16 + lo, each operation of the source acting  *)
(* on the halves, and x + 1 wrapping to 0 at 2^32 as it does in the        *)
(* source.                                                                 *)
(***************************************************************************)
RECURSIVE Pow2(_)
Pow2(s) == IF s = 0 THEN 1 ELSE 2 * Pow2(s - 1)

\* uint32(math.Ceil(float64(size) / fill)) for 0 < size < 2^31 and a quotient
\* below 2^32; a conversion of a larger quotient is implementation-dependent
\* in Go, and the model draws no such size
Uint32CeilDiv(size, fill) ==
    LET a  == (size \div TwoTo16) * fill.d
        b  == (size % TwoTo16) * fill.d
        qh == a \div fill.n
        ql == Ceil((a % fill.n) * TwoTo16 + b, fill.n)
    IN  [hi |-> qh + ql \div TwoTo16, lo |-> ql % TwoTo16]

\* x--
Uint32Dec(x) ==
    IF x.lo = 0 THEN [hi |-> x.hi - 1, lo |-> TwoTo16 - 1]
    ELSE [hi |-> x.hi, lo |-> x.lo - 1]

\* x |= x >> s, for a shift s of 1, 2, 4, 8 or 16
Uint32Smear(x, s) ==
    LET shifted == IF s >= 16
                   THEN [hi |-> 0, lo |-> x.hi]
                   ELSE [hi |-> ShiftRight(x.hi, s),
                         lo |-> ShiftRight(x.lo, s) + (x.hi % Pow2(s)) * Pow2(16 - s)]
    IN  [hi |-> BitOr(x.hi, shifted.hi), lo |-> BitOr(x.lo, shifted.lo)]

\* x + 1 in uint32: 0xFFFFFFFF + 1 = 0
Uint32Inc(x) ==
    IF x.lo = TwoTo16 - 1
    THEN [hi |-> (x.hi + 1) % TwoTo16, lo |-> 0]
    ELSE [hi |-> x.hi, lo |-> x.lo + 1]

\* int(x)
Uint32ToInt(x) == x.hi * TwoTo16 + x.lo

\* arraySize: the next power of two >= size / fill, at least 8
arraySize(size, fill) ==
    LET x == Uint32CeilDiv(size, fill) IN
    IF x.hi = 0 /\ x.lo < minArraySize THEN minArraySize
    ELSE LET x0 == Uint32Dec(x)
             x1 == Uint32Smear(x0, 1)
             x2 == Uint32Smear(x1, 2)
             x3 == Uint32Smear(x2, 4)
             x4 == Uint32Smear(x3, 8)
             x5 == Uint32Smear(x4, 16)
         IN  Uint32ToInt(Uint32Inc(x5))

\* what a construction that panics leaves its caller with: the message
Panic(msg) == [panic |-> msg]
Panicked(t) == "panic" \in DOMAIN t

\* newMap that accepts a fill factor of 1
newMapFillClosed(size, fillFactor) ==
    IF fillFactor.n <= 0 \/ fillFactor.n > fillFactor.d
    THEN Panic("intmap: fill factor must be in (0,1)")
    ELSE IF size <= 0
    THEN Panic("intmap: size must be positive")
    ELSE
    LET capSlots == arraySize(size, fillFactor) IN
    [ data       |-> make(capSlots * 2),
      fillFactor |-> ToFloat32(fillFactor),
      threshold  |-> Floor(capSlots * fillFactor.n, fillFactor.d),
      count      |-> 0,
      mask       |-> [i \in 0..1 |-> IF i = 0 THEN capSlots - 1 ELSE capSlots * 2 - 1],
      freeVal    |-> 0,
      hasFreeKey |-> FALSE ]

\* A fill factor [n, d] has d > 0: it is <= 0 when n <= 0, >= 1 when n >= d.
\* When capSlots is 0 the masks of the source are uint32(-1); the model
\* writes -1, the same residue modulo 2^32.
newMap(size, fillFactor) ==
    IF fillFactor.n <= 0 \/ fillFactor.n >= fillFactor.d
    THEN Panic("intmap: fill factor must be in (0,1)")
    ELSE IF size <= 0
    THEN Panic("intmap: size must be positive")
    ELSE
    LET capSlots == arraySize(size, fillFactor) IN
    [ data       |-> make(capSlots * 2),
      fillFactor |-> ToFloat32(fillFactor),
      threshold  |-> Floor(capSlots * fillFactor.n, fillFactor.d),
      count      |-> 0,
      mask       |-> [i \in 0..1 |-> IF i = 0 THEN capSlots - 1 ELSE capSlots * 2 - 1],
      freeVal    |-> 0,
      hasFreeKey |-> FALSE ]

New(size) == newMap(size, defaultFillFactor)
NewWithFill(size, fillFactor) == newMap(size, fillFactor)

\* bucketOf with an even multiplier
bucketOfEven(key, mask) == BitAnd(Low16(Low16(key) * (phi32Lo - 1)), mask) * 2

\* (key * phi32) & mask << 1
bucketOf(key, mask) == BitAnd(Low16(Low16(key) * phi32Lo), mask) * 2

Capacity(m) == len(m.data) \div 2
Count(m) == m.count

\* displacement of the occupant k of offset ptr: ((ptr - bucketOf(k, mask)) & mask1) >> 1
occDistOf(m, ptr, k) ==
    BitAnd(Low16(ptr - bucketOf(k, m.mask[0])), m.mask[1]) \div 2

\* ptr = (ptr + 2) & mask1
nextPtr(m, ptr) == BitAnd(ptr + 2, m.mask[1])

(***************************************************************************)
(* Load: <<value, ok>>.                                                    *)
(***************************************************************************)
RECURSIVE LoadLoop(_, _, _, _)

\* LoadLoop with the early exit taken one step too soon (occDist <= dist)
LoadLoopEager(m, key, ptr, dist) ==
    LET k == m.data[ptr] IN
    IF k = key THEN <<m.data[ptr + 1], TRUE>>
    ELSE IF k = isFree THEN <<0, FALSE>>
    ELSE IF occDistOf(m, ptr, k) <= dist THEN <<0, FALSE>>
    ELSE LoadLoop(m, key, nextPtr(m, ptr), dist + 1)

LoadLoop(m, key, ptr, dist) ==
    LET k == m.data[ptr] IN
    IF k = key THEN <<m.data[ptr + 1], TRUE>>
    ELSE IF k = isFree THEN <<0, FALSE>>
    ELSE IF occDistOf(m, ptr, k) < dist THEN <<0, FALSE>>
    ELSE LoadLoop(m, key, nextPtr(m, ptr), dist + 1)

Load(m, key) ==
    IF key = isFree
    THEN IF m.hasFreeKey THEN <<m.freeVal, TRUE>> ELSE <<0, FALSE>>
    ELSE LoadLoop(m, key, bucketOf(key, m.mask[0]), 0)

(***************************************************************************)
(* Store and rehash.  Store calls rehash when count reaches threshold and  *)
(* rehash reinserts through Store, so the four operators are mutually      *)
(* recursive.                                                              *)
(***************************************************************************)
RECURSIVE Store(_, _, _)
RECURSIVE StoreLoop(_, _, _, _, _)
RECURSIVE rehash(_)
RECURSIVE Reinsert(_, _, _)

\* StoreLoop that counts an overwrite as a new entry
StoreLoopCounting(m, ptr, key, val, dist) ==
    LET k == m.data[ptr] IN
    IF k = isFree
    THEN LET placed == [m EXCEPT !.data[ptr] = key,
                                 !.data[ptr + 1] = val,
                                 !.count = @ + 1]
         IN  IF placed.count >= placed.threshold THEN rehash(placed) ELSE placed
    ELSE IF k = key
    THEN LET placed == [m EXCEPT !.data[ptr + 1] = val, !.count = @ + 1]
         IN  IF placed.count >= placed.threshold THEN rehash(placed) ELSE placed
    ELSE LET occDist == occDistOf(m, ptr, k) IN
         IF occDist < dist
         THEN StoreLoop([m EXCEPT !.data[ptr] = key, !.data[ptr + 1] = val],
                        nextPtr(m, ptr), k, m.data[ptr + 1], occDist + 1)
         ELSE StoreLoop(m, nextPtr(m, ptr), key, val, dist + 1)

\* StoreLoop that steals from every occupant closer to home or as close
StoreLoopStealsOnTie(m, ptr, key, val, dist) ==
    LET k == m.data[ptr] IN
    IF k = isFree
    THEN LET placed == [m EXCEPT !.data[ptr] = key,
                                 !.data[ptr + 1] = val,
                                 !.count = @ + 1]
         IN  IF placed.count >= placed.threshold THEN rehash(placed) ELSE placed
    ELSE IF k = key
    THEN [m EXCEPT !.data[ptr + 1] = val]
    ELSE LET occDist == occDistOf(m, ptr, k) IN
         IF occDist <= dist
         THEN StoreLoop([m EXCEPT !.data[ptr] = key, !.data[ptr + 1] = val],
                        nextPtr(m, ptr), k, m.data[ptr + 1], occDist + 1)
         ELSE StoreLoop(m, nextPtr(m, ptr), key, val, dist + 1)

\* StoreLoop that never steals a slot: plain linear probing
StoreLoopNoSteal(m, ptr, key, val, dist) ==
    LET k == m.data[ptr] IN
    IF k = isFree
    THEN LET placed == [m EXCEPT !.data[ptr] = key,
                                 !.data[ptr + 1] = val,
                                 !.count = @ + 1]
         IN  IF placed.count >= placed.threshold THEN rehash(placed) ELSE placed
    ELSE IF k = key
    THEN [m EXCEPT !.data[ptr + 1] = val]
    ELSE StoreLoop(m, nextPtr(m, ptr), key, val, dist + 1)

StoreLoop(m, ptr, key, val, dist) ==
    LET k == m.data[ptr] IN
    IF k = isFree
    THEN LET placed == [m EXCEPT !.data[ptr] = key,
                                 !.data[ptr + 1] = val,
                                 !.count = @ + 1]
         IN  IF placed.count >= placed.threshold THEN rehash(placed) ELSE placed
    ELSE IF k = key
    THEN [m EXCEPT !.data[ptr + 1] = val]
    ELSE LET occDist == occDistOf(m, ptr, k) IN
         IF occDist < dist
         THEN StoreLoop([m EXCEPT !.data[ptr] = key, !.data[ptr + 1] = val],
                        nextPtr(m, ptr), k, m.data[ptr + 1], occDist + 1)
         ELSE StoreLoop(m, nextPtr(m, ptr), key, val, dist + 1)

\* Store that counts every Store of the free key
StoreFreeKeyCounting(m, key, val) ==
    IF key = isFree
    THEN [m EXCEPT !.count = @ + 1,
                   !.hasFreeKey = TRUE,
                   !.freeVal = val]
    ELSE StoreLoop(m, bucketOf(key, m.mask[0]), key, val, 0)

Store(m, key, val) ==
    IF key = isFree
    THEN [m EXCEPT !.count = IF ~m.hasFreeKey THEN @ + 1 ELSE @,
                   !.hasFreeKey = TRUE,
                   !.freeVal = val]
    ELSE StoreLoop(m, bucketOf(key, m.mask[0]), key, val, 0)

\* the reinsertion loop stopping one slot short of the end of the old array
ReinsertShort(m, old, i) ==
    IF i >= len(old) - 2 THEN m
    ELSE IF old[i] # isFree
    THEN Reinsert(Store(m, old[i], old[i + 1]), old, i + 2)
    ELSE Reinsert(m, old, i + 2)

\* the reinsertion loop of rehash: for i := 0; i < len(old); i += 2
Reinsert(m, old, i) ==
    IF i >= len(old) THEN m
    ELSE IF old[i] # isFree
    THEN Reinsert(Store(m, old[i], old[i + 1]), old, i + 2)
    ELSE Reinsert(m, old, i + 2)

\* rehash that restarts the count at 0 whether or not the free key is set
rehashForgetsFreeKey(m) ==
    LET old == m.data
        newCap == len(old) * 2
        grown == [m EXCEPT !.data = make(newCap),
                           !.mask = [i \in 0..1 |-> IF i = 0 THEN newCap \div 2 - 1
                                                    ELSE newCap - 1],
                           !.threshold = ((newCap \div 2) * m.fillFactor.n) \div m.fillFactor.d,
                           !.count = 0]
    IN  Reinsert(grown, old, 0)

rehash(m) ==
    LET old == m.data
        newCap == len(old) * 2
        grown == [m EXCEPT !.data = make(newCap),
                           !.mask = [i \in 0..1 |-> IF i = 0 THEN newCap \div 2 - 1
                                                    ELSE newCap - 1],
                           !.threshold = ((newCap \div 2) * m.fillFactor.n) \div m.fillFactor.d,
                           !.count = IF m.hasFreeKey THEN 1 ELSE 0]
    IN  Reinsert(grown, old, 0)

(***************************************************************************)
(* Delete: find the key, then shift the following entries back.            *)
(***************************************************************************)
\* the find loop; -1 when the key is absent
RECURSIVE DeleteFind(_, _, _)
DeleteFind(m, key, ptr) ==
    LET k == m.data[ptr] IN
    IF k = key THEN ptr
    ELSE IF k = isFree THEN -1
    ELSE DeleteFind(m, key, nextPtr(m, ptr))

RECURSIVE BackShift(_, _, _)

\* deletion that empties the slot and shifts nothing back
BackShiftNothing(m, ptr, next) ==
    [m EXCEPT !.data[ptr] = isFree, !.count = @ - 1]

\* the back-shift loop that forgets the count when it stops at an entry in
\* its home bucket
BackShiftKeepsCount(m, ptr, next) ==
    LET k == m.data[next] IN
    IF k = isFree
    THEN [m EXCEPT !.data[ptr] = isFree, !.count = @ - 1]
    ELSE IF BitAnd(Low16(next - bucketOf(k, m.mask[0])), m.mask[1]) = 0
    THEN [m EXCEPT !.data[ptr] = isFree]
    ELSE BackShift([m EXCEPT !.data[ptr] = k, !.data[ptr + 1] = m.data[next + 1]],
                   next, nextPtr(m, next))

\* the back-shift loop that stops after moving one entry back
BackShiftOnce(m, ptr, next) ==
    LET k == m.data[next] IN
    IF k = isFree
    THEN [m EXCEPT !.data[ptr] = isFree, !.count = @ - 1]
    ELSE IF BitAnd(Low16(next - bucketOf(k, m.mask[0])), m.mask[1]) = 0
    THEN [m EXCEPT !.data[ptr] = isFree, !.count = @ - 1]
    ELSE [m EXCEPT !.data[ptr] = k, !.data[ptr + 1] = m.data[next + 1],
                   !.data[next] = isFree, !.count = @ - 1]

\* the back-shift deletion loop
BackShift(m, ptr, next) ==
    LET k == m.data[next] IN
    IF k = isFree
    THEN [m EXCEPT !.data[ptr] = isFree, !.count = @ - 1]
    ELSE IF BitAnd(Low16(next - bucketOf(k, m.mask[0])), m.mask[1]) = 0
    THEN [m EXCEPT !.data[ptr] = isFree, !.count = @ - 1]
    ELSE BackShift([m EXCEPT !.data[ptr] = k, !.data[ptr + 1] = m.data[next + 1]],
                   next, nextPtr(m, next))

\* Delete of the free key without the hasFreeKey test
DeleteFreeKeyBlind(m, key) ==
    IF key = isFree
    THEN [m EXCEPT !.hasFreeKey = FALSE, !.count = @ - 1]
    ELSE LET ptr == DeleteFind(m, key, bucketOf(key, m.mask[0])) IN
         IF ptr = -1 THEN m ELSE BackShift(m, ptr, nextPtr(m, ptr))

Delete(m, key) ==
    IF key = isFree
    THEN IF m.hasFreeKey THEN [m EXCEPT !.hasFreeKey = FALSE, !.count = @ - 1] ELSE m
    ELSE LET ptr == DeleteFind(m, key, bucketOf(key, m.mask[0])) IN
         IF ptr = -1 THEN m ELSE BackShift(m, ptr, nextPtr(m, ptr))

(***************************************************************************)
(* Clear and Clone.                                                        *)
(***************************************************************************)
\* Clear that leaves the free-key record as it was
ClearKeepsFreeKey(m) ==
    [m EXCEPT !.data = make(len(m.data)),
              !.count = 0]

\* Clear that gives the array back and starts again from the smallest one
ClearShrinks(m) ==
    [m EXCEPT !.data = make(2 * minArraySize),
              !.mask = [i \in 0..1 |-> IF i = 0 THEN minArraySize - 1
                                       ELSE 2 * minArraySize - 1],
              !.count = 0,
              !.hasFreeKey = FALSE,
              !.freeVal = 0]

Clear(m) ==
    [m EXCEPT !.data = make(len(m.data)),
              !.count = 0,
              !.hasFreeKey = FALSE,
              !.freeVal = 0]

\* copy(dst, src) copies min(len(dst), len(src)) elements
copy(dst, src) ==
    [i \in DOMAIN dst |-> IF i < len(src) THEN src[i] ELSE dst[i]]

\* Clone that leaves out the free-key record
CloneWithoutFreeKey(m) ==
    LET clone == New(len(m.data) \div 2) IN
    [clone EXCEPT !.fillFactor = m.fillFactor,
                  !.count = m.count,
                  !.mask = m.mask,
                  !.data = copy(clone.data, m.data)]

\* New panics when the table has no slots: Clone returns no table
Clone(m) ==
    LET clone == New(len(m.data) \div 2) IN
    IF Panicked(clone) THEN clone ELSE
    [clone EXCEPT !.fillFactor = m.fillFactor,
                  !.count = m.count,
                  !.mask = m.mask,
                  !.hasFreeKey = m.hasFreeKey,
                  !.freeVal = m.freeVal,
                  !.data = copy(clone.data, m.data)]

(***************************************************************************)
(* Iteration.  A callback is modelled by the number of the invocation on   *)
(* which it asks to stop (Range) or returns an error (RangeErr); 0 is a    *)
(* callback that never does.  Each form returns the sequence of <<key,     *)
(* value>> pairs it handed to its callback, in order.                      *)
(***************************************************************************)
RECURSIVE RangeLoop(_, _, _, _)
RangeLoop(m, i, visited, stopAt) ==
    IF i >= len(m.data) THEN visited
    ELSE IF m.data[i] # isFree
    THEN LET seen == Append(visited, <<m.data[i], m.data[i + 1]>>) IN
         IF Len(seen) = stopAt THEN seen ELSE RangeLoop(m, i + 2, seen, stopAt)
    ELSE RangeLoop(m, i + 2, visited, stopAt)

\* Range that goes on to the array whatever the callback answers for key 0
RangeFreeKeyGoesOn(m, stopAt) ==
    IF m.hasFreeKey
    THEN RangeLoop(m, 0, << <<isFree, m.freeVal>> >>, stopAt)
    ELSE RangeLoop(m, 0, <<>>, stopAt)

Range(m, stopAt) ==
    IF m.hasFreeKey
    THEN IF stopAt = 1 THEN << <<isFree, m.freeVal>> >>
         ELSE RangeLoop(m, 0, << <<isFree, m.freeVal>> >>, stopAt)
    ELSE RangeLoop(m, 0, <<>>, stopAt)

RECURSIVE RangeEachLoop(_, _, _)
RangeEachLoop(m, i, visited) ==
    IF i >= len(m.data) THEN visited
    ELSE IF m.data[i] # isFree
    THEN RangeEachLoop(m, i + 2, Append(visited, <<m.data[i], m.data[i + 1]>>))
    ELSE RangeEachLoop(m, i + 2, visited)

\* RangeEach that leaves out the free key
RangeEachArrayOnly(m) == RangeEachLoop(m, 0, <<>>)

RangeEach(m) ==
    IF m.hasFreeKey
    THEN RangeEachLoop(m, 0, << <<isFree, m.freeVal>> >>)
    ELSE RangeEachLoop(m, 0, <<>>)

\* RangeErr returns the error: "nil", or "stop", the error of the callback
RECURSIVE RangeErrLoop(_, _, _, _)

\* RangeErrLoop that stops on the error of the callback and returns nil
RangeErrLoopSwallows(m, i, visited, errAt) ==
    IF i >= len(m.data) THEN [visited |-> visited, err |-> "nil"]
    ELSE IF m.data[i] # isFree
    THEN LET seen == Append(visited, <<m.data[i], m.data[i + 1]>>) IN
         IF Len(seen) = errAt THEN [visited |-> seen, err |-> "nil"]
         ELSE RangeErrLoop(m, i + 2, seen, errAt)
    ELSE RangeErrLoop(m, i + 2, visited, errAt)

RangeErrLoop(m, i, visited, errAt) ==
    IF i >= len(m.data) THEN [visited |-> visited, err |-> "nil"]
    ELSE IF m.data[i] # isFree
    THEN LET seen == Append(visited, <<m.data[i], m.data[i + 1]>>) IN
         IF Len(seen) = errAt THEN [visited |-> seen, err |-> "stop"]
         ELSE RangeErrLoop(m, i + 2, seen, errAt)
    ELSE RangeErrLoop(m, i + 2, visited, errAt)

RangeErr(m, errAt) ==
    IF m.hasFreeKey
    THEN IF errAt = 1 THEN [visited |-> << <<isFree, m.freeVal>> >>, err |-> "stop"]
         ELSE RangeErrLoop(m, 0, << <<isFree, m.freeVal>> >>, errAt)
    ELSE RangeErrLoop(m, 0, <<>>, errAt)

(***************************************************************************)
(* The specification: one table m, driven by a caller.                     *)
(*   m     the table                                                       *)
(*   prev  the table as it was before the last call                        *)
(*   last  the last call: its name, its arguments and what it returned     *)
(*   dict  the abstract dictionary driven by the same calls: a function    *)
(*         from the keys it holds to their values                          *)
(* heap, tabs and snap belong to the specification of an original and its  *)
(* clone, SpecClone below, lock and gos to the specification of Sync,      *)
(* SpecSync below; the other specifications leave them alone.              *)
(***************************************************************************)
VARIABLES m, prev, last, dict, heap, tabs, snap, lock, gos
vars == <<m, prev, last, dict, heap, tabs, snap, lock, gos>>
cloneVars == <<heap, tabs, snap>>
syncVars == <<lock, gos>>

\* no table: nothing constructed yet
NoTable == [none |-> TRUE]
IsTable(t) == "data" \in DOMAIN t

\* the values of heap, tabs and snap where there is no original and clone
NoClones ==
    /\ heap = <<>>
    /\ tabs = [orig |-> NoTable, clone |-> NoTable]
    /\ snap = NoTable

\* the values of lock and gos where there is no Sync
NoSync ==
    /\ lock = [w |-> 0]
    /\ gos = <<>>

\* the table the caller constructs: NewWithFill(4, 0.5), of capacity 8 and
\* threshold 4, so that the fourth entry crosses the resize threshold
Configs == { [size |-> 4, fill |-> [n |-> 1, d |-> 2]] }

\* the callbacks of Range and RangeErr stop on their first invocation, on
\* their second, or never
StopAts == 0..2

\* the abstract dictionary
EmptyDict == [k \in {} |-> 0]
DictStore(d, key, val) == [k \in DOMAIN d \cup {key} |-> IF k = key THEN val ELSE d[k]]
DictDelete(d, key) == [k \in DOMAIN d \ {key} |-> d[k]]

Init ==
    /\ \E c \in Configs : m = NewWithFill(c.size, c.fill)
    /\ prev = m
    /\ last = [op |-> "New"]
    /\ dict = EmptyDict
    /\ NoClones
    /\ NoSync

DoStore(key, val) ==
    /\ LET stored == Store(m, key, val) IN
         /\ Capacity(stored) <= MaxGrow
         /\ m' = stored
    /\ prev' = m
    /\ last' = [op |-> "Store", key |-> key, val |-> val]
    /\ dict' = DictStore(dict, key, val)
    /\ UNCHANGED <<cloneVars, syncVars>>

DoDelete(key) ==
    /\ m' = Delete(m, key)
    /\ prev' = m
    /\ last' = [op |-> "Delete", key |-> key]
    /\ dict' = DictDelete(dict, key)
    /\ UNCHANGED <<cloneVars, syncVars>>

DoClear ==
    /\ m' = Clear(m)
    /\ prev' = m
    /\ last' = [op |-> "Clear"]
    /\ dict' = EmptyDict
    /\ UNCHANGED <<cloneVars, syncVars>>

DoClone ==
    /\ LET clone == Clone(m) IN
         /\ Capacity(clone) <= MaxCap
         /\ m' = clone
    /\ prev' = m
    /\ last' = [op |-> "Clone"]
    /\ UNCHANGED dict
    /\ UNCHANGED <<cloneVars, syncVars>>

DoLoad(key) ==
    /\ last' = [op |-> "Load", key |-> key, ret |-> Load(m, key)]
    /\ prev' = m
    /\ UNCHANGED <<m, dict>>
    /\ UNCHANGED <<cloneVars, syncVars>>

DoCount ==
    /\ last' = [op |-> "Count", ret |-> Count(m)]
    /\ prev' = m
    /\ UNCHANGED <<m, dict>>
    /\ UNCHANGED <<cloneVars, syncVars>>

DoRange(stopAt) ==
    /\ last' = [op |-> "Range", stopAt |-> stopAt, ret |-> Range(m, stopAt)]
    /\ prev' = m
    /\ UNCHANGED <<m, dict>>
    /\ UNCHANGED <<cloneVars, syncVars>>

DoRangeEach ==
    /\ last' = [op |-> "RangeEach", ret |-> RangeEach(m)]
    /\ prev' = m
    /\ UNCHANGED <<m, dict>>
    /\ UNCHANGED <<cloneVars, syncVars>>

DoRangeErr(errAt) ==
    /\ last' = [op |-> "RangeErr", errAt |-> errAt, ret |-> RangeErr(m, errAt)]
    /\ prev' = m
    /\ UNCHANGED <<m, dict>>
    /\ UNCHANGED <<cloneVars, syncVars>>

Next ==
    \/ \E key \in Keys, val \in Vals : DoStore(key, val)
    \/ \E key \in Keys : DoDelete(key)
    \/ DoClear
    \/ DoClone
    \/ \E key \in Keys : DoLoad(key)
    \/ DoCount
    \/ \E stopAt \in StopAts : DoRange(stopAt)
    \/ DoRangeEach
    \/ \E errAt \in StopAts : DoRangeErr(errAt)

Spec == Init /\ [][Next]_vars

(***************************************************************************)
(* Construction.  SpecNew: the caller constructs a table with New or       *)
(* NewWithFill, of any size and fill factor, valid or not, and then uses   *)
(* key 0 alone; it also calls arraySize on its own, as TestArraySize and   *)
(* collisionRate do.  m is NoTable before the construction, and what the   *)
(* construction left its caller with after it: a table, or a panic.        *)
(***************************************************************************)
\* the largest of the small sizes the caller asks for
MaxSize == 12

\* the fill factors of the tests (0.80, 0.99, 0.6, 0.90), 0.5, and two small
\* ones
ValidFills ==
    { [n |-> 4, d |-> 5], [n |-> 99, d |-> 100], [n |-> 3, d |-> 5],
      [n |-> 9, d |-> 10], [n |-> 1, d |-> 2], [n |-> 3, d |-> 20],
      [n |-> 1, d |-> 10] }
\* 0 and 1 (TestInvalidNew), a negative one and one above 1
InvalidFills ==
    { [n |-> 0, d |-> 1], [n |-> 1, d |-> 1], [n |-> -1, d |-> 2], [n |-> 3, d |-> 2] }
ValidFill(fill) == 0 < fill.n /\ fill.n < fill.d

\* a size whose quotient by each of the fill factors of HugeFills lies
\* between 2^31 and 2^32
HugeSizes == {2000000000}
HugeFills == { [n |-> 4, d |-> 5], [n |-> 3, d |-> 5], [n |-> 1, d |-> 2] }

NewSizes == ((-1)..MaxSize) \cup HugeSizes
NewConfigs ==
    { [size |-> size, fill |-> fill] :
         size \in (-1)..MaxSize, fill \in ValidFills \cup InvalidFills }
    \cup { [size |-> size, fill |-> fill] : size \in HugeSizes, fill \in HugeFills }
\* sizes up to a million; collisionRate calls arraySize with a fill of 1
ArraySizeConfigs ==
    { [size |-> size, fill |-> fill] :
         size \in {1, 8, 10, 1000, 65536, 1000000},
         fill \in ValidFills \cup {[n |-> 1, d |-> 1]} }
    \cup { [size |-> size, fill |-> fill] : size \in HugeSizes, fill \in HugeFills }

InitNew ==
    /\ m = NoTable
    /\ prev = NoTable
    /\ last = [op |-> "none"]
    /\ dict = EmptyDict
    /\ NoClones
    /\ NoSync

DoNew(size) ==
    /\ m = NoTable
    /\ m' = New(size)
    /\ prev' = m
    /\ last' = [op |-> "New", size |-> size]
    /\ dict' = EmptyDict
    /\ UNCHANGED <<cloneVars, syncVars>>

DoNewWithFill(size, fillFactor) ==
    /\ m = NoTable
    /\ m' = NewWithFill(size, fillFactor)
    /\ prev' = m
    /\ last' = [op |-> "NewWithFill", size |-> size, fill |-> fillFactor]
    /\ dict' = EmptyDict
    /\ UNCHANGED <<cloneVars, syncVars>>

DoArraySize(size, fill) ==
    /\ m = NoTable
    /\ last' = [op |-> "arraySize", size |-> size, fill |-> fill,
                ret |-> arraySize(size, fill)]
    /\ UNCHANGED <<m, prev, dict>>
    /\ UNCHANGED <<cloneVars, syncVars>>

\* collisionRate of the tests, for the keys next(i) = first + i: the number of
\* keys counted for every home offset.  avg is returned as the pair of sum
\* and n, the quotient sum / n; max is never assigned and stays 0.  A
\* negative first stands for the uint32 of the same residue modulo 2^32.
collisionRate(count, first) ==
    LET mask == arraySize(count, [n |-> 1, d |-> 1]) - 1
        offsetOf == [i \in 0..(count - 1) |-> bucketOf(first + i, mask)]
        offsets == {offsetOf[i] : i \in 0..(count - 1)}
        counts == [o \in offsets |->
                      Cardinality({i \in 0..(count - 1) : offsetOf[i] = o})]
    IN  [counts |-> counts, sum |-> count, n |-> Cardinality(offsets),
         max |-> 0, mask |-> mask]

\* the counts of keys and the first keys collisionRate is called with: runs
\* of keys from 0, across 2^16 and across the wrap of uint32 at 2^32
CollisionCounts == 1..MaxSize \cup {16, 64}
CollisionFirsts == {0, 65530, -5}

DoCollisionRate(count, first) ==
    /\ m = NoTable
    /\ last' = [op |-> "collisionRate", count |-> count, first |-> first,
                ret |-> collisionRate(count, first)]
    /\ UNCHANGED <<m, prev, dict>>
    /\ UNCHANGED <<cloneVars, syncVars>>

\* the calls that never touch the array
FreeKeyStore(val) == IsTable(m) /\ DoStore(isFree, val)
FreeKeyDelete == IsTable(m) /\ DoDelete(isFree)
FreeKeyLoad == IsTable(m) /\ DoLoad(isFree)
FreeKeyCount == IsTable(m) /\ DoCount

NextNew ==
    \/ \E size \in NewSizes : DoNew(size)
    \/ \E c \in NewConfigs : DoNewWithFill(c.size, c.fill)
    \/ \E c \in ArraySizeConfigs : DoArraySize(c.size, c.fill)
    \/ \E count \in CollisionCounts, first \in CollisionFirsts :
           DoCollisionRate(count, first)
    \/ \E val \in Vals : FreeKeyStore(val)
    \/ FreeKeyDelete
    \/ FreeKeyLoad
    \/ FreeKeyCount

SpecNew == InitNew /\ [][NextNew]_vars

(***************************************************************************)
(* An original and its clone.  In the source the data field of a table is  *)
(* a slice: a reference to an array that Store, Delete and Clear write in  *)
(* place, and that rehash and New replace by a new array.  Two tables are  *)
(* independent as long as no write to the array of one reaches the array   *)
(* of the other, so SpecClone keeps the arrays apart from the tables:      *)
(*   heap  the arrays, a sequence; a reference is an index into it         *)
(*   tabs  the original and its clone (NoTable before Clone): the record   *)
(*         of a table, its data field holding a reference                  *)
(*   snap  NoTable before Clone; after it, which of the two tables the     *)
(*         caller goes on to change (mutated), which it leaves alone       *)
(*         (kept), and the table left alone as it was at Clone (view)      *)
(* The caller builds the original, clones it once, and from then on        *)
(* changes one of the two tables.  The calls are not recorded: last stays  *)
(* as it is.                                                               *)
(***************************************************************************)
Handle(t, ref) == [t EXCEPT !.data = ref]
\* the table a handle stands for: its fields, and the array it refers to
View(hp, h) == [h EXCEPT !.data = hp[h.data]]

\* make: a new array, at a reference no array has yet
Alloc(hp) == Len(hp) + 1

\* Store writes the array in place; when it calls rehash the table gets a
\* new array (m.data = make(...)), and the old one keeps what Store wrote
\* into it before the call: the array of a Store that does not rehash
StoreAt(hp, h, key, val) ==
    LET t == View(hp, h)
        stored == Store(t, key, val)
    IN  IF len(stored.data) = len(t.data)
        THEN [heap |-> [hp EXCEPT ![h.data] = stored.data],
              table |-> Handle(stored, h.data)]
        ELSE LET placed == Store([t EXCEPT !.threshold = t.count + 2], key, val)
             IN  [heap |-> Append([hp EXCEPT ![h.data] = placed.data], stored.data),
                  table |-> Handle(stored, Alloc(hp))]

DeleteAt(hp, h, key) ==
    LET deleted == Delete(View(hp, h), key) IN
    [heap |-> [hp EXCEPT ![h.data] = deleted.data],
     table |-> Handle(deleted, h.data)]

ClearAt(hp, h) ==
    LET cleared == Clear(View(hp, h)) IN
    [heap |-> [hp EXCEPT ![h.data] = cleared.data],
     table |-> Handle(cleared, h.data)]

\* Clone whose table refers to the array of the original (clone.data = m.data)
CloneAtShared(hp, h) ==
    [heap |-> hp, table |-> Handle(Clone(View(hp, h)), h.data)]

\* Clone: New makes the array of the clone, copy fills it
CloneAt(hp, h) ==
    LET clone == Clone(View(hp, h)) IN
    [heap |-> Append(hp, clone.data), table |-> Handle(clone, Alloc(hp))]

\* References are names: an array no table refers to is dropped, and the
\* arrays left are numbered original first.
Canon(hp, tb) ==
    IF ~IsTable(tb.clone) \/ tb.clone.data = tb.orig.data
    THEN [heap |-> <<hp[tb.orig.data]>>,
          tabs |-> [orig  |-> Handle(tb.orig, 1),
                    clone |-> IF IsTable(tb.clone) THEN Handle(tb.clone, 1) ELSE NoTable]]
    ELSE [heap |-> <<hp[tb.orig.data], hp[tb.clone.data]>>,
          tabs |-> [orig |-> Handle(tb.orig, 1), clone |-> Handle(tb.clone, 2)]]

\* the keys the caller of SpecClone uses
CloneKeys == {KeyList[i] : i \in 1..(NumKeys - 1)}

\* the original: NewWithFill(3, 0.375), of capacity 8 and threshold 3, so
\* that the third entry of the original crosses the resize threshold
CloneConfigs == { [size |-> 3, fill |-> [n |-> 3, d |-> 8]] }

InitClone ==
    /\ \E c \in CloneConfigs :
         LET t == NewWithFill(c.size, c.fill) IN
         /\ heap = <<t.data>>
         /\ tabs = [orig |-> Handle(t, 1), clone |-> NoTable]
    /\ snap = NoTable
    /\ last = [op |-> "New"]
    /\ m = NoTable
    /\ prev = NoTable
    /\ dict = EmptyDict
    /\ NoSync

\* the table the caller changes
Target == IF snap = NoTable THEN "orig" ELSE snap.mutated

\* (a result is bound with \E over a singleton, which evaluates it once)
Changed(r) ==
    \E c \in {Canon(r.heap, [tabs EXCEPT ![Target] = r.table])} :
        /\ heap' = c.heap
        /\ tabs' = c.tabs

OnStore(key, val) ==
    /\ \E r \in {StoreAt(heap, tabs[Target], key, val)} :
         /\ Capacity(View(r.heap, r.table)) <= MaxCap
         /\ Changed(r)
    /\ UNCHANGED <<m, prev, last, dict, snap, syncVars>>

OnDelete(key) ==
    /\ \E r \in {DeleteAt(heap, tabs[Target], key)} : Changed(r)
    /\ UNCHANGED <<m, prev, last, dict, snap, syncVars>>

OnClear ==
    /\ \E r \in {ClearAt(heap, tabs[Target])} : Changed(r)
    /\ UNCHANGED <<m, prev, last, dict, snap, syncVars>>

\* Clone, and the choice of the table the caller goes on to change
OnClone(mutated) ==
    /\ snap = NoTable
    /\ \E r \in {CloneAt(heap, tabs.orig)} :
       \E c \in {Canon(r.heap, [tabs EXCEPT !.clone = r.table])} :
           LET kept == IF mutated = "orig" THEN "clone" ELSE "orig" IN
           /\ Capacity(View(r.heap, r.table)) <= MaxCap
           /\ heap' = c.heap
           /\ tabs' = c.tabs
           /\ snap' = [mutated |-> mutated, kept |-> kept,
                       view |-> View(c.heap, c.tabs[kept])]
    /\ UNCHANGED <<m, prev, last, dict, syncVars>>

NextClone ==
    \/ \E key \in CloneKeys, val \in Vals : OnStore(key, val)
    \/ \E key \in CloneKeys : OnDelete(key)
    \/ OnClear
    \/ \E mutated \in {"orig", "clone"} : OnClone(mutated)

SpecClone == InitClone /\ [][NextClone]_vars

(***************************************************************************)
(* Long probe runs and small thresholds.  SpecProbe: one table driven by   *)
(* Store, Delete and Clear alone, over keys of which three share a home    *)
(* bucket, so that entries sit two and more slots away from home.  The     *)
(* table is either NewWithFill(6, 0.75), of capacity 8 and threshold 6,    *)
(* which holds all the keys without a resize, or NewWithFill(1, 0.15), of  *)
(* capacity 8 and threshold 1, the smallest threshold there is.            *)
(***************************************************************************)
ProbeKeys ==
    {KeyList[i] : i \in 1..(IF NumProbeKeys < Len(KeyList) THEN NumProbeKeys
                            ELSE Len(KeyList))}

ProbeConfigs == { [size |-> 6, fill |-> [n |-> 3, d |-> 4]],
                  [size |-> 1, fill |-> [n |-> 3, d |-> 20]] }

\* the value the caller stores with a key: one of its own for every key, so
\* that the value of one key is never taken for the value of another
ProbeVal(key) == key + 1

InitProbe ==
    /\ \E c \in ProbeConfigs : m = NewWithFill(c.size, c.fill)
    /\ prev = m
    /\ last = [op |-> "New"]
    /\ dict = EmptyDict
    /\ NoClones
    /\ NoSync

NextProbe ==
    \/ \E key \in ProbeKeys : DoStore(key, ProbeVal(key))
    \/ \E key \in ProbeKeys : DoDelete(key)
    \/ DoClear

SpecProbe == InitProbe /\ [][NextProbe]_vars

(***************************************************************************)
(* Sync: the table behind a sync.RWMutex, called by goroutines.            *)
(* SpecSync: NewSync builds the table m; every goroutine makes one call of *)
(* a method of Sync, and the calls run interleaved, statement by           *)
(* statement.                                                              *)
(*   lock  the RWMutex: w is the goroutine that holds its writer side      *)
(*         (from the moment Lock has announced the writer, which keeps new *)
(*         readers out, until Unlock), 0 when there is none; readers is    *)
(*         the number of read locks every goroutine holds                  *)
(*   gos   the goroutines: the call, the statement it is at, and what it   *)
(*         did so far                                                      *)
(* The statements of a call:                                               *)
(*   "RLock"     about to call m.lock.RLock()                              *)
(*   "Lock"      about to call m.lock.Lock()                               *)
(*   "LockWait"  inside m.lock.Lock(), writer announced, waiting for the   *)
(*               readers to leave                                          *)
(*   "body"      holding the lock, about to run the method of m.data       *)
(*   "RUnlock"   about to call m.lock.RUnlock()                            *)
(*   "Unlock"    about to call m.lock.Unlock()                             *)
(*   "done"      returned                                                  *)
(***************************************************************************)
Goroutines == 1..NumGoroutines

\* the table of NewSync: capacity 8 and threshold 1, so that the first Store
\* of a key resizes it
SyncConfigs == { [size |-> 1, fill |-> [n |-> 3, d |-> 20]] }

\* the key the goroutines contend for, and the value Store stores with it
SyncKeys == {KeyList[2]}
SyncVals == {1}

\* the callback of Range: it only reads its arguments, or it calls Store,
\* Delete, Load or Count on the same Sync
Callbacks == {"none", "Store", "Delete", "Load", "Count"}

\* the callbacks that call a method that takes the exclusive lock
Writing(cb) == cb \in {"Store", "Delete"}

\* the value fn returns to goroutine g in LoadOrStore: every caller computes
\* a value of its own
fn(g) == 1 + g

\* the calls a goroutine can make
SyncCalls ==
    {[op |-> o, key |-> k, val |-> 0, cb |-> "none"] :
        o \in {"Load", "Delete", "LoadOrStore"}, k \in SyncKeys}
    \cup {[op |-> "Store", key |-> k, val |-> v, cb |-> "none"] :
             k \in SyncKeys, v \in SyncVals}
    \cup {[op |-> "Count", key |-> 0, val |-> 0, cb |-> "none"]}
    \cup {[op |-> "Range", key |-> k, val |-> v, cb |-> c] :
             k \in SyncKeys, v \in SyncVals, c \in Callbacks}

NoCall == [op |-> "none", key |-> 0, val |-> 0, cb |-> "none"]

\* a goroutine that has not called yet
\*   slow      LoadOrStore is past its fast path
\*   nest      the callback of Range is inside its call of a method of Sync
\*   visited   the callback of Range has returned from that call
\*   ret       what the call returns
\*   fnRan     how often the call invoked fn
\*   tookLock  the call acquired the exclusive lock
\*   wrote     the call ran Store or Delete on m.data
\*   before    the goroutines whose calls had returned when this call started
Idle ==
    [call |-> NoCall, pc |-> "idle", slow |-> FALSE, nest |-> FALSE,
     visited |-> FALSE, ret |-> <<0, FALSE>>, seen |-> <<0, FALSE>>,
     fnRan |-> 0, tookLock |-> FALSE, wrote |-> FALSE, before |-> {}]

\* the table the goroutines share: as NewSync returned it, or with the entries
\* its constructor stored before sharing it, as sequentialSyncMap does
SyncTables ==
    {NewWithFill(c.size, c.fill) : c \in SyncConfigs}
    \cup {Store(NewWithFill(c.size, c.fill), k, v) :
             c \in SyncConfigs, k \in SyncKeys, v \in SyncVals}

InitSync ==
    /\ m \in SyncTables
    /\ prev = m
    /\ last = [op |-> "New"]
    /\ dict = EmptyDict
    /\ NoClones
    /\ lock = [w |-> 0, readers |-> [g \in Goroutines |-> 0]]
    /\ gos = [g \in Goroutines |-> Idle]

\* Store that takes the shared lock
SharedAlsoStore(op) == op \in {"Load", "Count", "Range", "LoadOrStore", "Store"}

\* the methods that start with m.lock.RLock(); Store and Delete start with
\* m.lock.Lock()
Shared(op) == op \in {"Load", "Count", "Range", "LoadOrStore"}

\* LoadOrStore that returns what Load found, found or not
FastPathAlways(r) == TRUE

\* LoadOrStore that goes on to the exclusive lock whatever Load found
FastPathNever(r) == FALSE

\* the fast path of LoadOrStore: if value, loaded = m.Load(key); loaded
FastPath(r) == r[2]

\* Lock that does not wait for the read locks of its own goroutine
DrainedButSelf(g) == \A h \in Goroutines \ {g} : lock.readers[h] = 0

\* what Lock waits for once it has announced the writer: no goroutine holds
\* a read lock
Drained(g) == \A h \in Goroutines : lock.readers[h] = 0

\* the slow path of LoadOrStore without the second Load
LoadOrStoreSlowNoRecheck(t, g, key) ==
    [table |-> Store(t, key, fn(g)), ret |-> <<fn(g), FALSE>>, ran |-> 1]

\* the slow path of LoadOrStore that computes and does not store
LoadOrStoreSlowNoStore(t, g, key) ==
    LET r == Load(t, key) IN
    IF r[2] THEN [table |-> t, ret |-> r, ran |-> 0]
    ELSE [table |-> t, ret |-> <<fn(g), FALSE>>, ran |-> 1]

\* the slow path of LoadOrStore, under the exclusive lock:
\* if value, loaded = m.data.Load(key); !loaded { value = fn(); Store }
LoadOrStoreSlow(t, g, key) ==
    LET r == Load(t, key) IN
    IF r[2] THEN [table |-> t, ret |-> r, ran |-> 0]
    ELSE [table |-> Store(t, key, fn(g)), ret |-> <<fn(g), FALSE>>, ran |-> 1]

\* goroutine g calls a method of Sync
Call(g, c) ==
    /\ gos[g].pc = "idle"
    /\ gos' = [gos EXCEPT ![g].call = c,
                          ![g].seen = Load(m, c.key),
                          ![g].before = {h \in Goroutines : gos[h].pc = "done"},
                          ![g].pc = IF Shared(c.op) THEN "RLock" ELSE "Lock"]
    /\ UNCHANGED <<m, prev, last, dict, cloneVars, lock>>

\* m.lock.RLock(): blocks while a writer holds the lock or has announced
\* itself
RLock(g) ==
    /\ gos[g].pc = "RLock"
    /\ lock.w = 0
    /\ lock' = [lock EXCEPT !.readers[g] = @ + 1]
    /\ gos' = [gos EXCEPT ![g].pc = "body"]
    /\ UNCHANGED <<m, prev, last, dict, cloneVars>>

\* m.lock.Lock(), first half: blocks while another writer holds the writer
\* side, then announces the writer
Lock(g) ==
    /\ gos[g].pc = "Lock"
    /\ lock.w = 0
    /\ lock' = [lock EXCEPT !.w = g]
    /\ gos' = [gos EXCEPT ![g].pc = "LockWait"]
    /\ UNCHANGED <<m, prev, last, dict, cloneVars>>

\* m.lock.Lock(), second half: returns when the readers have left
LockAcquire(g) ==
    /\ gos[g].pc = "LockWait"
    /\ Drained(g)
    /\ gos' = [gos EXCEPT ![g].pc = "body", ![g].tookLock = TRUE]
    /\ UNCHANGED <<m, prev, last, dict, cloneVars, lock>>

\* the call of the method of m.data, or of fn and m.data.Store, between the
\* locking and the unlocking
Body(g) ==
    /\ gos[g].pc = "body"
    /\ LET c == gos[g].call IN
       IF gos[g].nest
       THEN \* the callback of Range inside the method of Sync it calls
            IF Writing(c.cb)
            THEN /\ m' = IF c.cb = "Store" THEN Store(m, c.key, c.val)
                         ELSE Delete(m, c.key)
                 /\ gos' = [gos EXCEPT ![g].pc = "Unlock", ![g].wrote = TRUE]
            ELSE /\ m' = m
                 /\ gos' = [gos EXCEPT ![g].pc = "RUnlock"]
       ELSE IF c.op = "Load"
       THEN /\ gos' = [gos EXCEPT ![g].pc = "RUnlock", ![g].ret = Load(m, c.key)]
            /\ m' = m
       ELSE IF c.op = "Count"
       THEN /\ gos' = [gos EXCEPT ![g].pc = "RUnlock", ![g].ret = <<Count(m), TRUE>>]
            /\ m' = m
       ELSE IF c.op = "Range"
       THEN \* m.data.Range(f): f is invoked if there is an entry
            /\ IF c.cb = "none" \/ Count(m) = 0 \/ gos[g].visited
               THEN gos' = [gos EXCEPT ![g].pc = "RUnlock",
                                       ![g].ret = <<Len(Range(m, 0)), TRUE>>]
               ELSE gos' = [gos EXCEPT ![g].pc = IF Writing(c.cb) THEN "Lock"
                                                 ELSE "RLock",
                                       ![g].nest = TRUE]
            /\ m' = m
       ELSE IF c.op = "Store"
       THEN /\ m' = Store(m, c.key, c.val)
            /\ gos' = [gos EXCEPT ![g].wrote = TRUE,
                                  ![g].pc = IF Shared(c.op) THEN "RUnlock"
                                            ELSE "Unlock"]
       ELSE IF c.op = "Delete"
       THEN /\ m' = Delete(m, c.key)
            /\ gos' = [gos EXCEPT ![g].pc = "Unlock", ![g].wrote = TRUE]
       ELSE IF ~gos[g].slow
       THEN \* LoadOrStore, m.Load(key) under the shared lock
            /\ gos' = [gos EXCEPT ![g].pc = "RUnlock", ![g].ret = Load(m, c.key)]
            /\ m' = m
       ELSE \* LoadOrStore under the exclusive lock
            \E r \in {LoadOrStoreSlow(m, g, c.key)} :
                /\ m' = r.table
                /\ gos' = [gos EXCEPT ![g].pc = "Unlock",
                                      ![g].ret = r.ret,
                                      ![g].fnRan = @ + r.ran,
                                      ![g].wrote = (r.ran > 0)]
    /\ UNCHANGED <<prev, last, dict, cloneVars, lock>>

\* m.lock.RUnlock(); LoadOrStore then returns if Load found the key and goes
\* on to m.lock.Lock() if not; the callback of Range returns to Range
RUnlock(g) ==
    /\ gos[g].pc = "RUnlock"
    /\ lock' = [lock EXCEPT !.readers[g] = @ - 1]
    /\ gos' = [gos EXCEPT
                 ![g].pc = IF gos[g].nest THEN "body"
                           ELSE IF gos[g].call.op = "LoadOrStore" /\ ~FastPath(gos[g].ret)
                           THEN "Lock" ELSE "done",
                 ![g].slow = gos[g].call.op = "LoadOrStore" /\ ~FastPath(gos[g].ret),
                 ![g].visited = gos[g].nest,
                 ![g].nest = FALSE]
    /\ UNCHANGED <<m, prev, last, dict, cloneVars>>

\* Unlock that leaves the writer side taken
UnlockKeepsWriter(g) ==
    /\ gos[g].pc = "Unlock"
    /\ lock' = lock
    /\ gos' = [gos EXCEPT ![g].pc = IF gos[g].nest THEN "body" ELSE "done",
                          ![g].visited = gos[g].nest,
                          ![g].nest = FALSE]
    /\ UNCHANGED <<m, prev, last, dict, cloneVars>>

\* m.lock.Unlock(); the callback of Range then returns to Range
Unlock(g) ==
    /\ gos[g].pc = "Unlock"
    /\ lock' = [lock EXCEPT !.w = 0]
    /\ gos' = [gos EXCEPT ![g].pc = IF gos[g].nest THEN "body" ELSE "done",
                          ![g].visited = gos[g].nest,
                          ![g].nest = FALSE]
    /\ UNCHANGED <<m, prev, last, dict, cloneVars>>

NextSync ==
    \/ \E g \in Goroutines, c \in SyncCalls : Call(g, c)
    \/ \E g \in Goroutines : RLock(g)
    \/ \E g \in Goroutines : Lock(g)
    \/ \E g \in Goroutines : LockAcquire(g)
    \/ \E g \in Goroutines : Body(g)
    \/ \E g \in Goroutines : RUnlock(g)
    \/ \E g \in Goroutines : Unlock(g)

SpecSync == InitSync /\ [][NextSync]_vars

(***************************************************************************)
(* SpecSyncFair: the goroutines call again and again, and the scheduler    *)
(* and the mutex are fair.                                                 *)
(*   - a goroutine that can run is run: weak fairness of the statements    *)
(*     that wait for nothing, and of the second half of Lock, which stays  *)
(*     enabled once the readers have left (the announced writer keeps new  *)
(*     readers out);                                                       *)
(*   - a goroutine that waits in RLock or at the start of Lock gets the    *)
(*     lock: Unlock admits every reader that waits before the next writer, *)
(*     and the writer side is a sync.Mutex, which hands the mutex to a     *)
(*     waiter that has waited long (starvation mode): strong fairness.     *)
(* Nothing makes a goroutine call, and no callback calls back into the     *)
(* same Sync.                                                              *)
(***************************************************************************)
\* the statements of the call of goroutine g that wait for the lock
Waits(g) == RLock(g) \/ Lock(g)

\* the other statements of the call of goroutine g
Runs(g) == LockAcquire(g) \/ Body(g) \/ RUnlock(g) \/ Unlock(g)

\* goroutine g, back from its call, is ready for the next one
Again(g) ==
    /\ gos[g].pc = "done"
    /\ gos' = [gos EXCEPT ![g] = Idle]
    /\ UNCHANGED <<m, prev, last, dict, cloneVars, lock>>

\* the calls whose callback does not call back into the same Sync
PlainCalls == {c \in SyncCalls : c.cb = "none"}

NextSyncFair ==
    \/ \E g \in Goroutines, c \in PlainCalls : Call(g, c)
    \/ \E g \in Goroutines : Waits(g) \/ Runs(g)
    \/ \E g \in Goroutines : Again(g)

SpecSyncFair ==
    /\ InitSync
    /\ [][NextSyncFair]_vars
    /\ \A g \in Goroutines : WF_vars(Runs(g)) /\ SF_vars(Waits(g))

(***************************************************************************)
(* Probe loops that may not return.  SpecFull: a table of capacity 8, its  *)
(* clones, and more keys than the probe region of a clone has slots.  The  *)
(* probe loops of Store and Delete leave only at an empty slot or at the   *)
(* key; they walk the slots of the region m.mask[1] bounds in a circle,    *)
(* free no slot on the way, and a key Store carries is in no slot.  A loop *)
(* that has visited every slot of the region without leaving therefore     *)
(* leaves on no later visit either: the call never returns, which the      *)
(* model writes as the table Spinning(op).  The calls are not recorded in  *)
(* this specification.                                                     *)
(***************************************************************************)
Spinning(op) == [spinning |-> op]
Spins(t) == "spinning" \in DOMAIN t

\* the number of slots the probe loops of t walk: offsets 0 .. t.mask[1]
RegionSlots(t) == (t.mask[1] + 1) \div 2

\* the loop of Store, for at most left more slots
RECURSIVE StoreLoopWithin(_, _, _, _, _, _)
StoreLoopWithin(t, ptr, key, val, dist, left) ==
    IF left = 0 THEN Spinning("Store") ELSE
    LET k == t.data[ptr] IN
    IF k = isFree
    THEN LET placed == [t EXCEPT !.data[ptr] = key,
                                 !.data[ptr + 1] = val,
                                 !.count = @ + 1]
         IN  IF placed.count >= placed.threshold THEN rehash(placed) ELSE placed
    ELSE IF k = key
    THEN [t EXCEPT !.data[ptr + 1] = val]
    ELSE LET occDist == occDistOf(t, ptr, k) IN
         IF occDist < dist
         THEN StoreLoopWithin([t EXCEPT !.data[ptr] = key, !.data[ptr + 1] = val],
                              nextPtr(t, ptr), k, t.data[ptr + 1], occDist + 1,
                              left - 1)
         ELSE StoreLoopWithin(t, nextPtr(t, ptr), key, val, dist + 1, left - 1)

StoreWithin(t, key, val) ==
    IF key = isFree THEN Store(t, key, val)
    ELSE StoreLoopWithin(t, bucketOf(key, t.mask[0]), key, val, 0, RegionSlots(t))

\* the find loop of Delete, for at most left more slots; -2 when it never
\* leaves
RECURSIVE DeleteFindWithin(_, _, _, _)
DeleteFindWithin(t, key, ptr, left) ==
    IF left = 0 THEN -2 ELSE
    LET k == t.data[ptr] IN
    IF k = key THEN ptr
    ELSE IF k = isFree THEN -1
    ELSE DeleteFindWithin(t, key, nextPtr(t, ptr), left - 1)

\* the back-shift loop of Delete, for at most left more slots
RECURSIVE BackShiftWithin(_, _, _, _)
BackShiftWithin(t, ptr, next, left) ==
    IF left = 0 THEN Spinning("Delete") ELSE
    LET k == t.data[next] IN
    IF k = isFree
    THEN [t EXCEPT !.data[ptr] = isFree, !.count = @ - 1]
    ELSE IF BitAnd(Low16(next - bucketOf(k, t.mask[0])), t.mask[1]) = 0
    THEN [t EXCEPT !.data[ptr] = isFree, !.count = @ - 1]
    ELSE BackShiftWithin([t EXCEPT !.data[ptr] = k, !.data[ptr + 1] = t.data[next + 1]],
                         next, nextPtr(t, next), left - 1)

DeleteWithin(t, key) ==
    IF key = isFree THEN Delete(t, key)
    ELSE LET ptr == DeleteFindWithin(t, key, bucketOf(key, t.mask[0]), RegionSlots(t)) IN
         IF ptr = -2 THEN Spinning("Delete")
         ELSE IF ptr = -1 THEN t
         ELSE BackShiftWithin(t, ptr, nextPtr(t, ptr), RegionSlots(t))

\* the keys of the caller: 1, 2, ... as sequentialMap stores them, each with
\* a value of its own
FullKeys == 1..NumFullKeys

\* New(6): capacity 8, threshold 6
FullSizes == {6}

InitFull ==
    /\ \E size \in FullSizes : m = New(size)
    /\ prev = NoTable
    /\ last = [op |-> "New"]
    /\ dict = EmptyDict
    /\ NoClones
    /\ NoSync

FullStore(key) ==
    /\ IsTable(m)
    /\ \E r \in {StoreWithin(m, key, ProbeVal(key))} :
           /\ IF Spins(r) THEN TRUE ELSE Capacity(r) <= MaxGrow
           /\ m' = r
    /\ UNCHANGED <<prev, last, dict, cloneVars, syncVars>>

FullDelete(key) ==
    /\ IsTable(m)
    /\ m' = DeleteWithin(m, key)
    /\ UNCHANGED <<prev, last, dict, cloneVars, syncVars>>

\* Load returns on every table: its loop also leaves at an entry closer to
\* home than the steps taken
FullLoad(key) ==
    /\ IsTable(m)
    /\ Load(m, key)[2] \in BOOLEAN
    /\ UNCHANGED vars

FullClone ==
    /\ IsTable(m)
    /\ \E clone \in {Clone(m)} :
           /\ Capacity(clone) <= MaxCap
           /\ m' = clone
    /\ UNCHANGED <<prev, last, dict, cloneVars, syncVars>>

NextFull ==
    \/ \E key \in FullKeys : FullStore(key)
    \/ \E key \in FullKeys : FullDelete(key)
    \/ \E key \in FullKeys : FullLoad(key)
    \/ FullClone

SpecFull == InitFull /\ [][NextFull]_vars

(***************************************************************************)
(* What a caller can tell about a table t.                                 *)
(***************************************************************************)
Present(t, key) == Load(t, key)[2]

\* the offsets of the array that hold a key
Occupied(t) == {i \in DOMAIN t.data : i % 2 = 0 /\ t.data[i] # isFree}

\* the offset at which the array of t holds key
SlotOf(t, key) == CHOOSE i \in Occupied(t) : t.data[i] = key

\* the keys other than key that the array holds in t and still holds in u,
\* at another offset
Moved(t, u, key) ==
    {k \in Keys \ {isFree, key} :
        /\ \E i \in Occupied(t) : t.data[i] = k
        /\ \E i \in Occupied(u) : u.data[i] = k
        /\ SlotOf(t, k) # SlotOf(u, k)}

\* the table has been through rehash: its bucket mask is no longer that of
\* the constructed table
Grown(t) == t.mask[0] > minArraySize - 1

(***************************************************************************)
(* C1.  After any sequence of Store, Delete and Clear calls the table      *)
(* agrees with the abstract dictionary driven by the same calls: Load(k)   *)
(* returns (v, true) exactly when the dictionary holds k with value v and  *)
(* not-found otherwise, and Count() is the size of the dictionary.         *)
(***************************************************************************)
C1_AgreesWithDict ==
    /\ \A k \in Keys :
          IF k \in DOMAIN dict
          THEN Load(m, k) = <<dict[k], TRUE>>
          ELSE Load(m, k)[2] = FALSE
    /\ Count(m) = Cardinality(DOMAIN dict)

\* a table that crossed the resize threshold, holds key 0 and other keys,
\* and has just had a key deleted
C1_Witness ==
    /\ last.op = "Delete"
    /\ Grown(m)
    /\ isFree \in DOMAIN dict
    /\ Cardinality(DOMAIN dict) >= 3

(***************************************************************************)
(* C2.  Round trip: in every reachable table, Store(k, v) followed by      *)
(* Load(k) returns (v, true), for every key k (0 included) and value v.    *)
(***************************************************************************)
C2_RoundTrip ==
    last.op = "Store" => Load(m, last.key) = <<last.val, TRUE>>

\* a Store of a new key that took the slot of another key and pushed it on
C2_Witness ==
    /\ last.op = "Store"
    /\ last.key # isFree
    /\ ~Present(prev, last.key)
    /\ Moved(prev, m, last.key) # {}
    /\ Capacity(m) = Capacity(prev)

(***************************************************************************)
(* C3.  Overwrite: a Store of a key that is already present makes Load(k)  *)
(* return the new value, leaves Count() unchanged and resizes nothing.     *)
(***************************************************************************)
C3_Overwrite ==
    (last.op = "Store" /\ Present(prev, last.key)) =>
        /\ Load(m, last.key) = <<last.val, TRUE>>
        /\ Count(m) = Count(prev)
        /\ Capacity(m) = Capacity(prev)
        /\ m.mask = prev.mask
        /\ m.threshold = prev.threshold

\* an overwrite with another value in a table whose count is at the
\* threshold (a Store of key 0 took it there without a resize)
C3_Witness ==
    /\ last.op = "Store"
    /\ last.key # isFree
    /\ Present(prev, last.key)
    /\ Load(prev, last.key)[1] # last.val
    /\ Count(prev) >= prev.threshold

(***************************************************************************)
(* C4.  Deletion: after Delete(k), Load(k) is not-found, and Count() is    *)
(* one less if k was present before the Delete and unchanged if not.       *)
(***************************************************************************)
C4_Deletion ==
    last.op = "Delete" =>
        /\ Load(m, last.key)[2] = FALSE
        /\ Count(m) = Count(prev) - (IF Present(prev, last.key) THEN 1 ELSE 0)

\* a present non-zero key is deleted from a grown table and the back-shift
\* loop stops at the following entry, which sits in its home bucket
C4_Witness ==
    /\ last.op = "Delete"
    /\ last.key # isFree
    /\ Present(prev, last.key)
    /\ Grown(prev)
    /\ LET next == nextPtr(prev, SlotOf(prev, last.key)) IN
          /\ prev.data[next] # isFree
          /\ bucketOf(prev.data[next], prev.mask[0]) = next

(***************************************************************************)
(* C5.  Deleting an absent key, zero or not, is a silent no-op: Count()    *)
(* and the Load result of every key are unchanged.  The table is left      *)
(* exactly as it was, so a repeated Delete meets the same table again.     *)
(***************************************************************************)
C5_DeleteAbsent ==
    (last.op = "Delete" /\ ~Present(prev, last.key)) =>
        /\ Count(m) = Count(prev)
        /\ \A k \in Keys : Load(m, k) = Load(prev, k)
        /\ m = prev

\* the Delete of an absent non-zero key whose home bucket is occupied, so
\* that the find loop has to probe past other keys
C5_Witness ==
    /\ last.op = "Delete"
    /\ last.key # isFree
    /\ ~Present(prev, last.key)
    /\ prev.data[bucketOf(last.key, prev.mask[0])] # isFree
    /\ Count(prev) >= 2

(***************************************************************************)
(* C6.  Deleting a present key k leaves the Load result of every other     *)
(* key unchanged, also of the keys the backward shift moves and of keys    *)
(* whose probe run wraps around the end of the array.                      *)
(***************************************************************************)
C6_DeleteFrame ==
    (last.op = "Delete" /\ Present(prev, last.key)) =>
        \A k \in Keys \ {last.key} : Load(m, k) = Load(prev, k)

\* the backward shift moved a key that sat, wrapped around the end of the
\* array, at an offset below its home bucket
C6_Witness ==
    /\ last.op = "Delete"
    /\ Present(prev, last.key)
    /\ \E k \in Moved(prev, m, last.key) :
          SlotOf(prev, k) < bucketOf(k, prev.mask[0])

(***************************************************************************)
(* C7.  Resize transparency: a Store that grows the table loses or alters  *)
(* no pair stored before: every other key has the same Load result after   *)
(* the Store as before it, present or absent.                              *)
(***************************************************************************)
C7_ResizeTransparent ==
    (last.op = "Store" /\ Capacity(m) > Capacity(prev)) =>
        \A k \in Keys \ {last.key} : Load(m, k) = Load(prev, k)

\* a Store that grew a table holding key 0 and two more keys, one of them
\* in the last slot of the old array
C7_Witness ==
    /\ last.op = "Store"
    /\ Capacity(m) = 2 * Capacity(prev)
    /\ prev.hasFreeKey
    /\ Cardinality(Occupied(prev)) >= 2
    /\ prev.data[len(prev.data) - 2] # isFree

(***************************************************************************)
(* C8.  Zero-key parity: Store, Load and Delete of key 0 give the caller   *)
(* what they give for a non-zero key.  For key 0 and for every other key:  *)
(* after Store(k, v), Load(k) = (v, true) and Count() is one more if k was *)
(* absent and unchanged if it was present; after Delete(k), Load(k) is     *)
(* not-found and Count() is one less only if k was present; and no other   *)
(* key's Load result changes.                                              *)
(***************************************************************************)
StoreEffect(k) ==
    (last.op = "Store" /\ last.key = k) =>
        /\ Load(m, k) = <<last.val, TRUE>>
        /\ Count(m) = Count(prev) + (IF Present(prev, k) THEN 0 ELSE 1)
        /\ \A k2 \in Keys \ {k} : Load(m, k2) = Load(prev, k2)

DeleteEffect(k) ==
    (last.op = "Delete" /\ last.key = k) =>
        /\ Load(m, k) = <<0, FALSE>>
        /\ Count(m) = Count(prev) - (IF Present(prev, k) THEN 1 ELSE 0)
        /\ \A k2 \in Keys \ {k} : Load(m, k2) = Load(prev, k2)

C8_ZeroKeyParity ==
    /\ StoreEffect(isFree) /\ DeleteEffect(isFree)
    /\ \A k \in Keys \ {isFree} : StoreEffect(k) /\ DeleteEffect(k)

\* key 0 is stored a second time, with another value, next to other keys
C8_Witness ==
    /\ last.op = "Store"
    /\ last.key = isFree
    /\ prev.hasFreeKey
    /\ prev.freeVal # last.val
    /\ Occupied(m) # {}

Complete(visited) ==
    /\ Len(visited) = Count(m)
    /\ \A i \in 1..Len(visited) : Load(m, visited[i][1]) = <<visited[i][2], TRUE>>
    /\ \A i, j \in 1..Len(visited) : i # j => visited[i][1] # visited[j][1]
    /\ \A k \in Keys : Present(m, k) => \E i \in 1..Len(visited) : visited[i][1] = k

C10_IterationComplete ==
    /\ (last.op = "Range" /\ last.stopAt = 0) => Complete(last.ret)
    /\ last.op = "RangeEach" => Complete(last.ret)
    /\ (last.op = "RangeErr" /\ last.errAt = 0) =>
          Complete(last.ret.visited) /\ last.ret.err = "nil"

\* RangeEach over a grown table that holds key 0 and three more keys
C10_Witness ==
    /\ last.op = "RangeEach"
    /\ Grown(m)
    /\ m.hasFreeKey
    /\ Len(last.ret) >= 4

(***************************************************************************)
(* C11.  Early stop: on a non-empty table, a Range whose callback returns  *)
(* false on its first invocation invokes the callback exactly once,        *)
(* whatever the size of the table; when key 0 is present the one pair      *)
(* visited is that of key 0, and no pair of the array is visited.          *)
(***************************************************************************)
C11_EarlyStop ==
    (last.op = "Range" /\ last.stopAt = 1 /\ Count(m) > 0) =>
        /\ Len(last.ret) = 1
        /\ Load(m, last.ret[1][1]) = <<last.ret[1][2], TRUE>>
        /\ m.hasFreeKey => last.ret = << <<isFree, m.freeVal>> >>

\* a Range stopped on its first invocation, over a grown table that holds
\* key 0 and three keys in the array
C11_Witness ==
    /\ last.op = "Range"
    /\ last.stopAt = 1
    /\ Grown(m)
    /\ m.hasFreeKey
    /\ Count(m) >= 4

(***************************************************************************)
(* C12.  RangeErr halts at the first invocation of its callback that       *)
(* returns an error: the pairs visited are those a full iteration visits   *)
(* up to and including that invocation, the error returned is that of the  *)
(* callback, RangeErr returns nil when the callback never fails, and the   *)
(* table is left as it was.                                                *)
(***************************************************************************)
C12_RangeErrHalts ==
    last.op = "RangeErr" =>
        LET all == RangeEach(m) IN
        /\ m = prev
        /\ IF last.errAt \in 1..Len(all)
           THEN /\ last.ret.err = "stop"
                /\ last.ret.visited = SubSeq(all, 1, last.errAt)
           ELSE /\ last.ret.err = "nil"
                /\ last.ret.visited = all

\* the callback fails on its second invocation, the first pair of the array,
\* on a table that holds key 0 and two more pairs after the failing one
C12_Witness ==
    /\ last.op = "RangeErr"
    /\ last.errAt = 2
    /\ m.hasFreeKey
    /\ Count(m) >= 4
    /\ last.ret.err = "stop"
    /\ Len(last.ret.visited) = 2

(***************************************************************************)
(* C13.  Clone equality: the table Clone returns has the Count of the      *)
(* original and, for every key, present or absent, 0 included, the Load    *)
(* result of the original.                                                 *)
(***************************************************************************)
C13_CloneEquality ==
    last.op = "Clone" =>
        /\ Count(m) = Count(prev)
        /\ \A k \in Keys : Load(m, k) = Load(prev, k)

\* the clone of a table that holds key 0, two keys whose probe run wraps
\* around the end of the array, and lacks a fourth key
C13_Witness ==
    /\ last.op = "Clone"
    /\ prev.hasFreeKey
    /\ Count(prev) = 3
    /\ \E k \in Keys \ {isFree} : Present(prev, k) /\ SlotOf(prev, k) = 0
                                   /\ bucketOf(k, prev.mask[0]) # 0
    /\ \E k \in Keys : ~Present(prev, k)

(***************************************************************************)
(* C14.  Clone independence: after Clone, whatever Stores, Deletes and     *)
(* Clears the caller applies to the clone, every Load result and the Count *)
(* of the original are what they were at Clone; and whatever it applies to *)
(* the original, those of the clone are what they were.                    *)
(***************************************************************************)
C14_CloneIndependence ==
    snap # NoTable =>
        LET kept == View(heap, tabs[snap.kept]) IN
        /\ Count(kept) = Count(snap.view)
        /\ \A k \in Keys : Load(kept, k) = Load(snap.view, k)

\* the original held two entries at Clone; the clone has since lost one of
\* them and holds another value for the other
C14_Witness ==
    /\ snap # NoTable
    /\ snap.mutated = "clone"
    /\ Count(snap.view) = 2
    /\ LET changed == View(heap, tabs.clone) IN
       /\ \E k \in Keys : Present(snap.view, k) /\ ~Present(changed, k)
       /\ \E k \in Keys : /\ Present(snap.view, k)
                           /\ Present(changed, k)
                           /\ Load(changed, k) # Load(snap.view, k)

(***************************************************************************)
(* C15.  The table Clone returns has the Capacity of the original.         *)
(* Clone sizes the new table with New(len(m.data) / 2): the capacity of    *)
(* the original goes through arraySize as a number of entries at the       *)
(* default fill factor, and comes out doubled.                             *)
(***************************************************************************)
C15_CloneKeepsCapacity ==
    last.op = "Clone" => Capacity(m) = Capacity(prev)

(***************************************************************************)
(* C16.  Clear: after Clear, Count is 0, Load finds no key, 0 included,    *)
(* Capacity is what it was, and the table is a freshly constructed table   *)
(* of that capacity: the table some NewWithFill(size, fill) returns, fill  *)
(* being the fill factor the caller constructed the table with.            *)
(***************************************************************************)
FreshlyConstructed(t) ==
    \E c \in Configs, size \in 1..MaxCap : t = NewWithFill(size, c.fill)

C16_Clear ==
    last.op = "Clear" =>
        /\ Count(m) = 0
        /\ \A k \in Keys : Load(m, k) = <<0, FALSE>>
        /\ Capacity(m) = Capacity(prev)
        /\ FreshlyConstructed(m)

(***************************************************************************)
(* C17.  Construction sizing: New(size) and NewWithFill(size, f) with      *)
(* size > 0 and 0 < f < 1 return an empty table whose Capacity is the      *)
(* smallest power of two >= ceil(size / f), and at least 8; size 10 gives  *)
(* 16 at the default fill factor and at 0.99, and 32 at 0.6.               *)
(***************************************************************************)
RECURSIVE IsPowerOfTwo(_)
IsPowerOfTwo(c) == c = 1 \/ (c > 1 /\ c % 2 = 0 /\ IsPowerOfTwo(c \div 2))

\* c >= ceil(size / fill), that is c * fill >= size
Holds(c, size, fill) == size <= (c * fill.n) \div fill.d

SmallestPowerOfTwo(c, size, fill) ==
    /\ IsPowerOfTwo(c)
    /\ c >= minArraySize
    /\ Holds(c, size, fill)
    /\ c = minArraySize \/ ~Holds(c \div 2, size, fill)

C17_ConstructionSizing ==
    /\ (last.op = "New" /\ last.size > 0) =>
          /\ IsTable(m)
          /\ Count(m) = 0
          /\ SmallestPowerOfTwo(Capacity(m), last.size, defaultFillFactor)
          /\ last.size = 10 => Capacity(m) = 16
    /\ (last.op = "NewWithFill" /\ last.size > 0 /\ ValidFill(last.fill)) =>
          /\ IsTable(m)
          /\ Count(m) = 0
          /\ SmallestPowerOfTwo(Capacity(m), last.size, last.fill)
          /\ (last.size = 10 /\ last.fill = [n |-> 99, d |-> 100]) => Capacity(m) = 16
          /\ (last.size = 10 /\ last.fill = [n |-> 3, d |-> 5]) => Capacity(m) = 32
    /\ (last.op = "arraySize" /\ ValidFill(last.fill)) =>
          SmallestPowerOfTwo(last.ret, last.size, last.fill)

(***************************************************************************)
(* C18.  Construction preconditions: a construction with a fill factor     *)
(* <= 0 or >= 1, or with a size <= 0, panics and returns no table; every   *)
(* construction with size > 0 and 0 < fill < 1 returns a table.            *)
(***************************************************************************)
C18_ConstructionPreconditions ==
    /\ last.op = "New" =>
          /\ Panicked(m) <=> last.size <= 0
          /\ ~Panicked(m) => IsTable(m)
    /\ last.op = "NewWithFill" =>
          /\ Panicked(m) <=> (last.size <= 0 \/ ~ValidFill(last.fill))
          /\ ~Panicked(m) => IsTable(m)

\* newMap(10, 1) of TestInvalidNew: a valid size, the fill factor 1
C18_Witness ==
    /\ last.op = "NewWithFill"
    /\ last.size = 10
    /\ last.fill = [n |-> 1, d |-> 1]
    /\ Panicked(m)

(***************************************************************************)
(* C19.  Capacity is the number of entries the table holds before a        *)
(* resize: a Store into a table that holds fewer than Capacity entries     *)
(* leaves the capacity as it was, so Stores alone take Count up to         *)
(* Capacity.                                                               *)
(***************************************************************************)
C19_CapacityBeforeResize ==
    (last.op = "Store" /\ Count(prev) < Capacity(prev)) =>
        Capacity(m) = Capacity(prev)

(***************************************************************************)
(* C20.  count <= threshold when a Store returns, in every table the       *)
(* caller can construct, for key 0 and for the other keys, with and        *)
(* without a resize during the call.                                       *)
(***************************************************************************)
C20_CountWithinThreshold ==
    last.op = "Store" => m.count <= m.threshold

(***************************************************************************)
(* C21.  In every reachable state of every table, constructed, grown,      *)
(* cleared or cloned, Capacity is a power of two and at least 8.           *)
(***************************************************************************)
C21_CapacityPowerOfTwo ==
    IsTable(m) => IsPowerOfTwo(Capacity(m)) /\ Capacity(m) >= minArraySize

(***************************************************************************)
(* C29.  Resize at the boundary: a Store that adds a new entry, of key 0   *)
(* or of any other key, and thereby takes Count to the threshold the table *)
(* had when it was called returns with the capacity doubled; a Store that  *)
(* leaves Count below that threshold returns with the capacity unchanged.  *)
(***************************************************************************)
C29_ResizeAtBoundary ==
    last.op = "Store" =>
        /\ (~Present(prev, last.key) /\ Count(m) >= prev.threshold)
               => Capacity(m) = 2 * Capacity(prev)
        /\ Count(m) < prev.threshold => Capacity(m) = Capacity(prev)

(***************************************************************************)
(* The probe path of a key.                                                *)
(***************************************************************************)
\* the offset j probes after the home bucket of key k in t
PathSlot(t, k, j) == BitAnd(bucketOf(k, t.mask[0]) + 2 * j, t.mask[1])

\* the probe distance of the occupant of offset p of t
DistAt(t, p) == occDistOf(t, p, t.data[p])

(***************************************************************************)
(* C27.  Robin Hood ordering, amended: in every reachable state, for every *)
(* occupied slot holding key k at position p, every slot strictly between  *)
(* home(k) and p is occupied by an entry whose own probe distance at its   *)
(* position is at least the distance of that slot from home(k), the probe  *)
(* distance k would have there.                                            *)
(***************************************************************************)
C27_RobinHoodOrdering ==
    \A p \in Occupied(m) :
        \A j \in 1..(DistAt(m, p) - 1) :
            LET q == PathSlot(m, m.data[p], j) IN
            /\ m.data[q] # isFree
            /\ DistAt(m, q) >= j

\* a Store has just moved an entry by a steal, and an entry sits two or more
\* slots away from its home bucket with the entry of another bucket strictly
\* between
C27_Witness ==
    /\ last.op = "Store"
    /\ Moved(prev, m, last.key) # {}
    /\ \E p \in Occupied(m), q \in Occupied(m) :
           /\ DistAt(m, p) >= 2
           /\ \E j \in 1..(DistAt(m, p) - 1) : q = PathSlot(m, m.data[p], j)
           /\ bucketOf(m.data[q], m.mask[0]) # bucketOf(m.data[p], m.mask[0])

\* C27 as the claim words it: every slot strictly between home(k) and p holds
\* an entry whose probe distance is at least the probe distance of k at p
C27_AsStated ==
    \A p \in Occupied(m) :
        \A j \in 1..(DistAt(m, p) - 1) :
            LET q == PathSlot(m, m.data[p], j) IN
            /\ m.data[q] # isFree
            /\ DistAt(m, q) >= DistAt(m, p)

(***************************************************************************)
(* C28.  No tombstones: after any sequence of Store, Delete and Clear,     *)
(* every array slot is either empty (key 0) or holds a key that Load       *)
(* reports present with that slot's value, and for every occupied slot no  *)
(* slot on the probe path from the occupant's home bucket to its position  *)
(* is empty.                                                               *)
(***************************************************************************)
C28_NoTombstones ==
    /\ \A i \in DOMAIN m.data :
           (i % 2 = 0 /\ m.data[i] # isFree)
               => Load(m, m.data[i]) = <<m.data[i + 1], TRUE>>
    /\ \A p \in Occupied(m) :
           \A j \in 0..(DistAt(m, p) - 1) :
               m.data[PathSlot(m, m.data[p], j)] # isFree

\* a Delete has just removed a key from the middle of a probe run: entries
\* behind it were shifted back and one of them is still away from home
C28_Witness ==
    /\ last.op = "Delete"
    /\ Present(prev, last.key)
    /\ Moved(prev, m, last.key) # {}
    /\ \E p \in Occupied(m) : DistAt(m, p) >= 1

(***************************************************************************)
(* C30.  No nested resize: the Stores by which rehash reinserts the old    *)
(* entries trigger no further rehash, whatever the fill factor and with or *)
(* without the key-0 entry, so that one Store call of the caller           *)
(* multiplies the capacity by at most two.                                 *)
(***************************************************************************)
C30_NoNestedResize ==
    last.op = "Store" => Capacity(m) <= 2 * Capacity(prev)

(***************************************************************************)
(* The calls of the goroutines of SpecSync.                                *)
(***************************************************************************)
\* the goroutines that called LoadOrStore(k, fn)
Callers(k) ==
    {g \in Goroutines : gos[g].call.op = "LoadOrStore" /\ gos[g].call.key = k}

\* goroutine g called Store or Delete of k, or Range with a callback that
\* does
Touches(g, k) ==
    /\ gos[g].call.key = k
    /\ gos[g].call.op \in {"Store", "Delete"} \/ Writing(gos[g].call.cb)

\* goroutine g called Delete of k, or Range with a callback that does
Deletes(g, k) ==
    /\ gos[g].call.key = k
    /\ gos[g].call.op = "Delete" \/ gos[g].call.cb = "Delete"

\* the concurrent LoadOrStore calls the claims are about: k was absent when
\* each of them started, nothing else touches k, and all have returned
Contended(k) ==
    /\ Callers(k) # {}
    /\ \A g \in Goroutines : ~Touches(g, k)
    /\ \A g \in Callers(k) : ~gos[g].seen[2]

Returned(k) == \A g \in Callers(k) : gos[g].pc = "done"

\* how often the goroutines of G invoked fn
RECURSIVE FnRuns(_)
FnRuns(G) ==
    IF G = {} THEN 0
    ELSE LET g == CHOOSE h \in G : TRUE IN gos[g].fnRan + FnRuns(G \ {g})

\* goroutine g holds the lock and is inside a method of m.data: a Range is
\* inside it for as long as its callback runs
Inside(g) == gos[g].pc = "body" \/ gos[g].nest

\* goroutine g is inside Store or Delete of m.data, or inside the re-check,
\* compute and store section of LoadOrStore
Mutating(g) ==
    /\ gos[g].pc = "body"
    /\ \/ gos[g].nest /\ Writing(gos[g].call.cb)
       \/ gos[g].call.op \in {"Store", "Delete"}
       \/ gos[g].call.op = "LoadOrStore" /\ gos[g].slow

\* the callback of the Range of goroutine g is inside Store or Delete of the
\* same Sync, waiting for the exclusive lock, while the Range holds the
\* shared lock
Blocked(g) ==
    /\ gos[g].nest
    /\ gos[g].pc \in {"Lock", "LockWait"}
    /\ lock.readers[g] > 0

(***************************************************************************)
(* C22.  LoadOrStore computes once: when goroutines concurrently call      *)
(* LoadOrStore(k, fn) for a key k absent when they start, and nothing else *)
(* touches k, fn is invoked at most once while they run and exactly once   *)
(* when all have returned, by the one caller that then stores its result.  *)
(***************************************************************************)
C22_ComputesOnce ==
    \A k \in SyncKeys :
        Contended(k) =>
            /\ FnRuns(Callers(k)) <= 1
            /\ Returned(k) =>
                   /\ FnRuns(Callers(k)) = 1
                   /\ \A g \in Callers(k) :
                          gos[g].fnRan = 1 =>
                              /\ gos[g].wrote
                              /\ Load(m, k) = <<fn(g), TRUE>>

\* every goroutine has called LoadOrStore of the same absent key, missed on
\* the fast path, taken the exclusive lock in its turn and returned
C22_Witness ==
    \E k \in SyncKeys :
        /\ Contended(k)
        /\ Returned(k)
        /\ Callers(k) = Goroutines
        /\ \A g \in Goroutines : gos[g].tookLock

(***************************************************************************)
(* C23.  LoadOrStore agreement: among concurrent LoadOrStore(k, fn) calls  *)
(* on an initially absent key k, nothing else touching k, exactly one call *)
(* returns loaded = false, with the value of its own fn, all the others    *)
(* return that same value with loaded = true, and afterwards Load(k)       *)
(* returns that value; a single call on a missing key returns              *)
(* (fn(), false).                                                          *)
(***************************************************************************)
C23_Agreement ==
    \A k \in SyncKeys :
        (Contended(k) /\ Returned(k)) =>
            \E w \in Callers(k) :
                /\ gos[w].ret = <<fn(w), FALSE>>
                /\ \A g \in Callers(k) \ {w} : gos[g].ret = <<fn(w), TRUE>>
                /\ Load(m, k) = <<fn(w), TRUE>>

\* a caller that missed on the fast path and found, under the exclusive
\* lock, the value another caller had computed and stored in between
C23_Witness ==
    \E k \in SyncKeys :
        /\ Contended(k)
        /\ Returned(k)
        /\ \E w \in Callers(k), g \in Callers(k) :
               /\ w # g
               /\ gos[w].fnRan = 1
               /\ gos[g].slow
               /\ gos[g].ret = <<fn(w), TRUE>>

(***************************************************************************)
(* C24.  LoadOrStore on a key that is already present, and that no other   *)
(* call deletes, returns (existing value, true) on the fast path: fn is    *)
(* never invoked, the exclusive lock is never acquired and the call writes *)
(* nothing to the table.                                                   *)
(***************************************************************************)
C24_FastPathOnPresentKey ==
    \A g \in Goroutines :
        LET c == gos[g].call IN
        (/\ c.op = "LoadOrStore"
         /\ gos[g].seen[2]
         /\ \A h \in Goroutines : ~Deletes(h, c.key))
        => /\ gos[g].fnRan = 0
           /\ ~gos[g].tookLock
           /\ ~gos[g].slow
           /\ ~gos[g].wrote
           /\ gos[g].pc \notin {"Lock", "LockWait", "Unlock"}
           /\ gos[g].pc = "done" =>
                  /\ gos[g].ret[2]
                  /\ gos[g].ret[1] \in
                         {gos[g].seen[1]} \cup
                         {gos[h].call.val : h \in {i \in Goroutines :
                                                    gos[i].call.op = "Store"}}

\* a LoadOrStore of a present key has returned while another goroutine,
\* which called Store of the same key, waits for or holds the exclusive lock
C24_Witness ==
    \E g \in Goroutines, h \in Goroutines :
        /\ gos[g].call.op = "LoadOrStore"
        /\ gos[g].seen[2]
        /\ gos[g].pc = "done"
        /\ gos[h].call.op = "Store"
        /\ gos[h].call.key = gos[g].call.key
        /\ gos[h].pc \in {"Lock", "LockWait", "body"}

(***************************************************************************)
(* C25.  Writer exclusion: while one goroutine is inside a mutating table  *)
(* operation (Store, Delete, or the re-check, compute and store section of *)
(* LoadOrStore, with any resize it triggers), no other goroutine is inside *)
(* any table operation, read or write, on the same Sync; only readers      *)
(* overlap each other.                                                     *)
(***************************************************************************)
C25_WriterExclusion ==
    \A g \in Goroutines, h \in Goroutines :
        (g # h /\ Mutating(g)) => ~Inside(h)

\* a goroutine is inside the Store that resizes the table while another one
\* waits for the lock
C25_Witness ==
    \E g \in Goroutines, h \in Goroutines :
        /\ Mutating(g)
        /\ gos[g].call.op = "Store"
        /\ Capacity(Store(m, gos[g].call.key, gos[g].call.val)) > Capacity(m)
        /\ gos[h].pc \in {"RLock", "Lock"}

(***************************************************************************)
(* C26.  A Range callback that calls Store or Delete on the same Sync      *)
(* deadlocks: once the inner call waits for the exclusive lock while the   *)
(* Range holds the shared lock, it waits in every later state; nothing     *)
(* takes it out of the wait.                                               *)
(***************************************************************************)
C26_CallbackDeadlock ==
    [][\A g \in Goroutines : Blocked(g) => Blocked(g)']_vars

\* the inner call has announced itself as the writer and waits for the
\* readers, of which its own Range is one, while another goroutine waits for
\* the lock in its turn
C26_Witness ==
    \E g \in Goroutines, h \in Goroutines :
        /\ Blocked(g)
        /\ gos[g].pc = "LockWait"
        /\ gos[h].pc \in {"RLock", "Lock"}

(***************************************************************************)
(* C31.  Derived fields stay consistent: in every reachable table,         *)
(* constructed, grown by rehash, cleared or produced by Clone, the bucket  *)
(* mask is Capacity - 1, the offset mask is 2 * Capacity - 1 and the       *)
(* threshold is floor(Capacity * fillFactor) for the fill factor of the    *)
(* table.                                                                  *)
(***************************************************************************)
C31_DerivedFields ==
    IsTable(m) =>
        /\ m.mask[0] = Capacity(m) - 1
        /\ m.mask[1] = 2 * Capacity(m) - 1
        /\ m.threshold = Floor(Capacity(m) * m.fillFactor.n, m.fillFactor.d)

(***************************************************************************)
(* C32.  Capacity never shrinks: across the operations on one table        *)
(* Capacity is non-decreasing; Delete, Clear, Load, Count, the iteration   *)
(* forms and an overwriting Store leave it unchanged, and it changes only  *)
(* through the rehash of a Store, each of which doubles it.                *)
(***************************************************************************)
C32_CapacityNeverShrinks ==
    /\ last.op \in {"Delete", "Clear", "Load", "Count", "Range", "RangeEach",
                    "RangeErr"}
           => Capacity(m) = Capacity(prev)
    /\ last.op = "Store" =>
           /\ Present(prev, last.key) => Capacity(m) = Capacity(prev)
           /\ \E s \in 0..2 : Capacity(m) = Capacity(prev) * Pow2(s)

\* a table that has grown is cleared of its entries and keeps its capacity
C32_Witness ==
    /\ last.op = "Clear"
    /\ Grown(prev)
    /\ Count(prev) > 0
    /\ Capacity(m) = 2 * minArraySize

(***************************************************************************)
(* C33.  Home buckets of consecutive keys are distinct: at a capacity C    *)
(* that is a power of two, bucketOf maps C consecutive keys, and any       *)
(* shorter run, to pairwise distinct even offsets below 2C, so that        *)
(* collisionRate counts one key for every home bucket it meets and returns *)
(* an average of exactly 1 for sequential keys, within the bound of 2 of   *)
(* the test.                                                               *)
(***************************************************************************)
C33_ConsecutiveKeysDistinct ==
    last.op = "collisionRate" =>
        LET r == last.ret IN
        /\ r.n = last.count
        /\ \A o \in DOMAIN r.counts :
               /\ r.counts[o] = 1
               /\ o % 2 = 0
               /\ o >= 0
               /\ o < 2 * (r.mask + 1)
        /\ r.sum = r.n
        /\ r.sum <= 2 * r.n

\* as many consecutive keys as the capacity, across the wrap of uint32:
\* every home bucket is hit
C33_Witness ==
    /\ last.op = "collisionRate"
    /\ last.count = last.ret.mask + 1
    /\ last.count > minArraySize
    /\ last.first < 0
    /\ DOMAIN last.ret.counts = {2 * b : b \in 0..last.ret.mask}

(***************************************************************************)
(* C35.  Prefix form of the Robin Hood ordering, the one the early exit of *)
(* Load relies on: in every reachable state, for every occupied slot       *)
(* holding key k at probe distance d from home(k), each slot at probe      *)
(* distance j < d from home(k) is occupied by a key whose own probe        *)
(* distance is at least j; hence Load and the find loop of Delete reach    *)
(* every key the array holds, and no key occurs in two slots.              *)
(***************************************************************************)
C35_PrefixOrdering ==
    /\ \A p \in Occupied(m) :
           \A j \in 0..(DistAt(m, p) - 1) :
               LET q == PathSlot(m, m.data[p], j) IN
               /\ m.data[q] # isFree
               /\ DistAt(m, q) >= j
    /\ \A p \in Occupied(m) :
           /\ Load(m, m.data[p])[2]
           /\ DeleteFind(m, m.data[p], bucketOf(m.data[p], m.mask[0])) = p
    /\ \A p \in Occupied(m), q \in Occupied(m) :
           m.data[p] = m.data[q] => p = q

\* the key just stored sits away from its home bucket, having stolen a slot,
\* and Load of an absent key walks past it and stops early at an entry that
\* is closer to its own home
C35_Witness ==
    /\ last.op = "Store"
    /\ Moved(prev, m, last.key) # {}
    /\ \E p \in Occupied(m) : m.data[p] = last.key /\ DistAt(m, p) >= 1
    /\ \E key \in ProbeKeys \ {isFree} :
           /\ ~Present(m, key)
           /\ \E j \in 2..3 :
                  /\ \A i \in 0..j : m.data[PathSlot(m, key, i)] # isFree
                  /\ \A i \in 0..(j - 1) : DistAt(m, PathSlot(m, key, i)) >= i
                  /\ DistAt(m, PathSlot(m, key, j)) < j

(***************************************************************************)
(* C36.  Every Load, Store and Delete call returns on every table reached  *)
(* through New, Store, Delete and Clone, because the region the probe      *)
(* loops walk has an empty slot whenever a call starts; a clone accepts    *)
(* any number of Stores of new keys without a probe loop running forever.  *)
(***************************************************************************)
C36_CallsReturn ==
    /\ ~Spins(m)
    /\ IsTable(m) =>
           \E i \in 0..m.mask[1] : i % 2 = 0 /\ m.data[i] = isFree

\* the callback of the Range of goroutine g is inside Load or Count of the
\* same Sync, at its RLock, while the Range holds the shared lock
Reentered(g) ==
    /\ gos[g].nest
    /\ ~Writing(gos[g].call.cb)
    /\ gos[g].pc = "RLock"
    /\ lock.readers[g] > 0

\* ... and another goroutine is inside Lock, having announced the writer:
\* the RLock waits for that writer, which waits for the read lock of the
\* Range
ReentryBlocked(g) ==
    /\ Reentered(g)
    /\ lock.w \in Goroutines \ {g}
    /\ gos[lock.w].pc = "LockWait"

(***************************************************************************)
(* C38.  Read-only re-entry is safe: a Range callback that calls only Load *)
(* or Count on the same Sync completes even when another goroutine waits   *)
(* in Store, Delete or LoadOrStore for the exclusive lock: the pending     *)
(* writer does not block the nested RLock, so the callback is never caught *)
(* in a wait cycle with it.                                                *)
(***************************************************************************)
C38_ReadOnlyReentry ==
    \A g \in Goroutines : ~ReentryBlocked(g)

\* no call so far came with a callback that calls back into the same Sync
NoReentry == \A g \in Goroutines : gos[g].call.cb = "none"

\* goroutine g is inside a call
InCall(g) == gos[g].pc \notin {"idle", "done"}

\* goroutine g has returned and holds no side of the lock
ReturnedUnlocked(g) ==
    /\ gos[g].pc = "done"
    /\ lock.readers[g] = 0
    /\ lock.w # g

(***************************************************************************)
(* C37.  Absence of deadlock and progress: when no callback calls back     *)
(* into the same Sync, in no reachable state are the goroutines that are   *)
(* inside a call all unable to take a step, and under fair scheduling      *)
(* every call of Load, Store, Delete, Count, Range and LoadOrStore returns *)
(* with the lock released.                                                 *)
(***************************************************************************)
C37_Progress ==
    /\ [](NoReentry /\ (\E g \in Goroutines : InCall(g))
            => \E g \in Goroutines : ENABLED (Waits(g) \/ Runs(g)))
    /\ ([]NoReentry) =>
           \A g \in Goroutines : InCall(g) ~> ReturnedUnlocked(g)

\* a writer, announced, waits for a reader to leave, and then returns
C37_Witness ==
    /\ NoReentry
    /\ \E g \in Goroutines, h \in Goroutines :
           /\ gos[g].pc = "LockWait"
           /\ lock.w = g
           /\ lock.readers[h] > 0
           /\ gos[h].call.op \in {"Range", "LoadOrStore"}

\* the goroutines that have called
Called == {g \in Goroutines : gos[g].pc # "idle"}

\* the orders in which the calls of the goroutines of G can run one after
\* the other
Orders(G) ==
    {o \in [1..Cardinality(G) -> G] :
        \A i, j \in 1..Cardinality(G) : o[i] = o[j] => i = j}

\* a call that had returned before another started comes first
RealTime(o) ==
    \A i, j \in DOMAIN o : i < j => o[j] \notin gos[o[i]].before

\* the call of goroutine g alone on the plain table t: the table it leaves
\* and what it returns
Alone(t, g) ==
    LET c == gos[g].call
        r == Load(t, c.key)
    IN  IF c.op = "Load" THEN [table |-> t, ret |-> r]
        ELSE IF c.op = "Count" THEN [table |-> t, ret |-> <<Count(t), TRUE>>]
        ELSE IF c.op = "Store"
        THEN [table |-> Store(t, c.key, c.val), ret |-> <<0, FALSE>>]
        ELSE IF c.op = "Delete"
        THEN [table |-> Delete(t, c.key), ret |-> <<0, FALSE>>]
        ELSE IF r[2] THEN [table |-> t, ret |-> r]
        ELSE [table |-> Store(t, c.key, fn(g)), ret |-> <<fn(g), FALSE>>]

\* the calls in the order o, one after the other, from the table t
RECURSIVE OneByOne(_, _, _, _)
OneByOne(t, o, i, rets) ==
    IF i > Len(o) THEN [table |-> t, rets |-> rets]
    ELSE LET r == Alone(t, o[i]) IN
         OneByOne(r.table, o, i + 1, [rets EXCEPT ![o[i]] = r.ret])

(***************************************************************************)
(* C34.  Linearizability: when the concurrent calls of Load, Store,        *)
(* Delete, Count and LoadOrStore have all returned, what they returned and *)
(* the table they leave are those of the same calls run one after the      *)
(* other on a plain Map, in some order that puts a call that returned      *)
(* before another started first.  prev is the table the goroutines were    *)
(* given.                                                                  *)
(***************************************************************************)
C34_Linearizable ==
    (/\ \A g \in Called : gos[g].pc = "done" /\ gos[g].call.op # "Range")
        => \E o \in Orders(Called) :
               /\ RealTime(o)
               /\ LET r == OneByOne(prev, o, 1, [g \in Goroutines |-> <<0, FALSE>>])
                  IN  /\ r.table = m
                      /\ \A g \in Called : r.rets[g] = gos[g].ret

\* two overlapping LoadOrStore calls of an absent key have returned: one
\* computed and stored, the other missed on its fast path and found the key
\* under the exclusive lock
C34_Witness ==
    /\ Called = Goroutines
    /\ \A g \in Goroutines :
           /\ gos[g].pc = "done"
           /\ gos[g].call.op = "LoadOrStore"
           /\ gos[g].before = {}
           /\ gos[g].slow
    /\ \E g \in Goroutines : gos[g].fnRan = 0

====
